---- MODULE Spec2Model ----
(***************************************************************************)
(* Model of the GigaCAD agent (src/src/ai_agent.py) and of its OnPy-backed *)
(* CAD client (src/src/onpy_client.py).                                    *)
(*                                                                         *)
(* Strings are atoms.  A formatted string keeps its parts in a record.     *)
(* A language-model response is a sequence of lexical tokens: the two      *)
(* brace characters, a chunk of prose (free of braces), and the member     *)
(* chunks "key": value of a JSON object (the separating commas belong to   *)
(* the member chunks).  A JSON value is a record that starts with ty, its  *)
(* Python type, and holds what a value of that type has.                   *)
(***************************************************************************)
EXTENDS Integers, Sequences, FiniteSets, TLC

VARIABLES
    current_document,    \* CADAgent.current_document  ("None" or an id)
    current_workspace,   \* CADAgent.current_workspace
    current_part_studio, \* CADAgent.current_part_studio
    onshape,             \* the OnPyClient object: its six fields
    pc,                  \* position of create_part_from_description
    step_count,          \* _agentic_workflow.step_count
    context,             \* _agentic_workflow.context: the records appended to the goal
    next_action,         \* _agentic_workflow.next_action (the plan in hand)
    result,              \* value returned by create_part_from_description
    exit,                \* how _agentic_workflow was left
    response,            \* the last raw answer of the language model
    llm,                 \* the answers the language model may give, per planner call
    runs,                \* number of create_part_from_description calls so far
    planner_calls,       \* _plan_next_step calls of the current run
    executor_calls,      \* _execute_planned_step calls of the current run
    last_exec,           \* what the last _execute_planned_step call did
    planning_prompt      \* _plan_next_step.planning_prompt of the last planner call

vars == <<current_document, current_workspace, current_part_studio, onshape,
          pc, step_count, context, next_action, result, exit, response, llm,
          runs, planner_calls, executor_calls, last_exec, planning_prompt>>

session == <<current_document, current_workspace, current_part_studio, onshape>>

-----------------------------------------------------------------------------
(* Bounds of the model and constants of the program *)

\* while step_count < max_steps
max_steps == 10

\* longest response text (in tokens) of the specification of the parser
MaxRespLen == 5

\* create_part_from_description calls in one behaviour
MaxRuns == 2

\* onpy documents created in one behaviour
MaxDocs == 2

\* parts stored in OnPyClient.parts
MaxParts == 2

-----------------------------------------------------------------------------
(* JSON values *)

Str(s) == [ty |-> "str", v |-> s]
Num(k) == [ty |-> "num", val |-> k]
Arr(items) == [ty |-> "arr", items |-> items]
Obj(o) == [ty |-> "obj", o |-> o]
Bool(b) == [ty |-> "bool", val |-> IF b THEN 1 ELSE 0]
None == [ty |-> "null"]

EmptyDict == <<>>

\* dict.get(key, default)
Get(d, key, default) == IF key \in DOMAIN d THEN d[key] ELSE default

\* d[key] = value
Put(d, key, value) == (key :> value) @@ d

-----------------------------------------------------------------------------
(* Tokens of a response text *)

LB == "{"
RB == "}"
Prose == "w"
ArgsKey == "tool_args:"

\* The member chunks "key": value ; each maps to its key and its value.
Member ==
       ("a:complete"   :> <<"action", Str("complete")>>)
    @@ ("a:tool_call"  :> <<"action", Str("tool_call")>>)
    @@ ("a:bogus"      :> <<"action", Str("bogus")>>)
    @@ ("m:ok"         :> <<"message", Str("ok")>>)
    @@ ("m:null"       :> <<"message", None>>)
    @@ ("d:step"       :> <<"description", Str("step")>>)
    @@ ("n:create_document"    :> <<"tool_name", Str("create_document")>>)
    @@ ("n:create_part_studio" :> <<"tool_name", Str("create_part_studio")>>)
    @@ ("n:create_sketch"      :> <<"tool_name", Str("create_sketch")>>)
    @@ ("n:add_circle_to_sketch" :> <<"tool_name", Str("add_circle_to_sketch")>>)
    @@ ("n:add_line_to_sketch" :> <<"tool_name", Str("add_line_to_sketch")>>)
    @@ ("n:add_arc_to_sketch"  :> <<"tool_name", Str("add_arc_to_sketch")>>)
    @@ ("n:extrude_sketch"     :> <<"tool_name", Str("extrude_sketch")>>)
    @@ ("n:revolve_sketch"     :> <<"tool_name", Str("revolve_sketch")>>)
    @@ ("n:create_fillet"      :> <<"tool_name", Str("create_fillet")>>)
    @@ ("n:create_chamfer"     :> <<"tool_name", Str("create_chamfer")>>)
    @@ ("n:get_planes"         :> <<"tool_name", Str("get_planes")>>)
    @@ ("n:make_gear"          :> <<"tool_name", Str("make_gear")>>)
    @@ ("n:select_document"    :> <<"tool_name", Str("select_document")>>)
    @@ ("n:add_rectangle_to_sketch" :> <<"tool_name", Str("add_rectangle_to_sketch")>>)
    @@ ("n:trace_points_in_sketch" :> <<"tool_name", Str("trace_points_in_sketch")>>)
    @@ ("n:get_features"       :> <<"tool_name", Str("get_features")>>)
    @@ ("n:delete_feature"     :> <<"tool_name", Str("delete_feature")>>)
    @@ ("name=Part"            :> <<"name", Str("Part")>>)
    @@ ("name=S1"              :> <<"name", Str("S1")>>)
    @@ ("plane=Top"            :> <<"plane", Str("Top")>>)
    @@ ("sketch_name=S1"       :> <<"sketch_name", Str("S1")>>)
    @@ ("center=[0,0]"         :> <<"center", Arr(<<Num(0), Num(0)>>)>>)
    @@ ("centerpoint=[0,0]"    :> <<"centerpoint", Arr(<<Num(0), Num(0)>>)>>)
    @@ ("start_point=[0,0]"    :> <<"start_point", Arr(<<Num(0), Num(0)>>)>>)
    @@ ("start_point=[0mm,0]"  :> <<"start_point", Arr(<<Str("0mm"), Num(0)>>)>>)
    @@ ("end_point=[5,5]"      :> <<"end_point", Arr(<<Num(5), Num(5)>>)>>)
    @@ ("radius=25"            :> <<"radius", Num(25)>>)
    @@ ("radius=25mm"          :> <<"radius", Str("25mm")>>)
    @@ ("start_angle=0"        :> <<"start_angle", Num(0)>>)
    @@ ("start_angle=0deg"     :> <<"start_angle", Str("0deg")>>)
    @@ ("end_angle=90"         :> <<"end_angle", Num(90)>>)
    @@ ("endBoundOffset=20"    :> <<"endBoundOffset", Num(20)>>)
    @@ ("endBoundOffset=20mm"  :> <<"endBoundOffset", Str("20mm")>>)
    @@ ("operation=new"        :> <<"operation", Str("new")>>)
    @@ ("sketch_id=S1"         :> <<"sketch_id", Str("S1")>>)
    @@ ("axis=[0,0,1]"         :> <<"axis", Arr(<<Num(0), Num(0), Num(1)>>)>>)
    @@ ("angle=360deg"         :> <<"angle", Str("360deg")>>)
    @@ ("edge_queries=[e1]"    :> <<"edge_queries", Arr(<<Str("e1")>>)>>)
    @@ ("distance=2mm"         :> <<"distance", Str("2mm")>>)
    @@ ("document_id=D"        :> <<"document_id", Str("D")>>)
    @@ ("feature_id=F"         :> <<"feature_id", Str("F")>>)
    @@ ("sketch_name=S2"       :> <<"sketch_name", Str("S2")>>)
    @@ ("center=[0,0,5]"       :> <<"center", Arr(<<Num(0), Num(0), Num(5)>>)>>)
    @@ ("center=[0]"           :> <<"center", Arr(<<Num(0)>>)>>)
    @@ ("corner_1=[0,0]"       :> <<"corner_1", Arr(<<Num(0), Num(0)>>)>>)
    @@ ("corner_2=[5,5]"       :> <<"corner_2", Arr(<<Num(5), Num(5)>>)>>)
    @@ ("points=[[0,0],[5,5]]" :> <<"points", Arr(<<Arr(<<Num(0), Num(0)>>),
                                                     Arr(<<Num(5), Num(5)>>)>>)>>)
    @@ ("angle=360"            :> <<"angle", Num(360)>>)
    @@ ("distance=2"           :> <<"distance", Num(2)>>)
    @@ ("operation=remove"     :> <<"operation", Str("remove")>>)
    @@ ("operation=intersect"  :> <<"operation", Str("intersect")>>)
    @@ ("name=S2"              :> <<"name", Str("S2")>>)
    @@ ("plane=Front"          :> <<"plane", Str("Front")>>)
    @@ ("feature_id=S1"        :> <<"feature_id", Str("S1")>>)

MemberToks == DOMAIN Member

-----------------------------------------------------------------------------
(* json.loads on a brace-delimited token sequence *)

NoParse == [ok |-> FALSE, obj |-> EmptyDict, next |-> 0]

\* The members of an object from position i on, up to its closing brace.
\* A repeated key keeps its last value, as Python's decoder does.
RECURSIVE ParseMembers(_, _, _)
ParseMembers(s, i, acc) ==
    IF i > Len(s) THEN NoParse
    ELSE IF s[i] = RB THEN [ok |-> TRUE, obj |-> acc, next |-> i + 1]
    ELSE IF s[i] \in MemberToks
        THEN ParseMembers(s, i + 1, Put(acc, Member[s[i]][1], Member[s[i]][2]))
    ELSE IF s[i] = ArgsKey /\ i + 1 <= Len(s) /\ s[i + 1] = LB
        THEN LET inner == ParseMembers(s, i + 2, EmptyDict)
             IN  IF inner.ok
                 THEN ParseMembers(s, inner.next, Put(acc, "tool_args", Obj(inner.obj)))
                 ELSE NoParse
    ELSE NoParse

\* json.loads(json_str): the whole string must be one JSON object.
JsonLoads(s) ==
    IF Len(s) = 0 \/ s[1] # LB THEN NoParse
    ELSE LET r == ParseMembers(s, 2, EmptyDict)
         IN  IF r.ok /\ r.next = Len(s) + 1 THEN r ELSE NoParse

-----------------------------------------------------------------------------
(* re.search(r'\{.*\}', response, re.DOTALL) *)

Positions(s, tok) == {i \in 1..Len(s) : s[i] = tok}

SetMin(S) == CHOOSE x \in S : \A y \in S : x <= y
SetMax(S) == CHOOSE x \in S : \A y \in S : y <= x

\* The match starts at the first opening brace that has a closing brace
\* after it and, the star being greedy, ends at the last closing brace.
ReSearch(s) ==
    LET opens == Positions(s, LB)
        closes == Positions(s, RB)
    IN  IF opens # {} /\ closes # {} /\ SetMin(opens) < SetMax(closes)
        THEN [found |-> TRUE, group |-> SubSeq(s, SetMin(opens), SetMax(closes))]
        ELSE [found |-> FALSE, group |-> <<>>]

-----------------------------------------------------------------------------
(* The language model's answers *)

Text(toks) == [kind |-> "text", toks |-> toks]
\* message.content is None
NoContent == [kind |-> "none", toks |-> <<>>]
\* llm.generate raises
LLMError == [kind |-> "raise", toks |-> <<>>]

-----------------------------------------------------------------------------
(* CADAgent._plan_next_step *)

CouldNotFindJSON == "Could not find JSON in planning response"
PlanningFailed == "Planning failed: <error>"

CompletePlan(message) ==
    Put(Put(EmptyDict, "action", Str("complete")), "message", Str(message))

Returned(plan) == [raised |-> FALSE, plan |-> plan]
Raised == [raised |-> TRUE, plan |-> EmptyDict]

\* Mutant of ExtractPlan: the fallback for a response without a match is
\* left out, and the empty plan goes on to the loop.
ExtractPlanNoFallback(resp) ==
    IF resp.kind # "text" THEN Raised
    ELSE LET json_match == ReSearch(resp.toks)
         IN  IF json_match.found
             THEN LET loaded == JsonLoads(json_match.group)
                  IN  IF loaded.ok THEN Returned(loaded.obj) ELSE Raised
             ELSE Returned(EmptyDict)

\* The body of the try block: the plan, or the exception the block raises.
ExtractPlan(resp) ==
    IF resp.kind # "text" THEN Raised
    ELSE LET json_match == ReSearch(resp.toks)
         IN  IF json_match.found
             THEN LET loaded == JsonLoads(json_match.group)
                  IN  IF loaded.ok THEN Returned(loaded.obj) ELSE Raised
             ELSE Returned(CompletePlan(CouldNotFindJSON))

\* Mutant of PlanExcept: no except clause, the exception leaves the planner.
PlanExceptPropagates(tried) == tried

\* except Exception: return a `complete` plan
PlanExcept(tried) ==
    IF tried.raised THEN Returned(CompletePlan(PlanningFailed)) ELSE tried

PlanNextStep(resp) ==
    IF resp.kind = "raise" THEN Raised
    ELSE PlanExcept(ExtractPlan(resp))

-----------------------------------------------------------------------------
(* The tool catalog: CADAgent.tools *)

available_tool_names ==
    {"create_document", "select_document", "create_part_studio", "create_sketch",
     "add_circle_to_sketch", "add_rectangle_to_sketch", "add_line_to_sketch",
     "add_arc_to_sketch", "trace_points_in_sketch", "extrude_sketch",
     "revolve_sketch", "get_features", "get_planes", "delete_feature",
     "create_fillet", "create_chamfer"}

\* The "required" list of each tool of the catalog
Required ==
       ("create_document"         :> {"name"})
    @@ ("select_document"         :> {"document_id"})
    @@ ("create_part_studio"      :> {"name"})
    @@ ("create_sketch"           :> {"plane", "name"})
    @@ ("add_circle_to_sketch"    :> {"sketch_name", "center", "radius"})
    @@ ("add_rectangle_to_sketch" :> {"sketch_name", "corner_1", "corner_2"})
    @@ ("add_line_to_sketch"      :> {"sketch_name", "start_point", "end_point"})
    @@ ("add_arc_to_sketch"       :> {"sketch_name", "centerpoint", "radius",
                                      "start_angle", "end_angle"})
    @@ ("trace_points_in_sketch"  :> {"sketch_name", "points"})
    @@ ("extrude_sketch"          :> {"sketch_name", "endBoundOffset"})
    @@ ("revolve_sketch"          :> {"sketch_id", "axis", "angle"})
    @@ ("get_features"            :> {})
    @@ ("get_planes"              :> {})
    @@ ("delete_feature"          :> {"feature_id"})
    @@ ("create_fillet"           :> {"edge_queries", "radius"})
    @@ ("create_chamfer"          :> {"edge_queries", "distance"})

-----------------------------------------------------------------------------
(* The session: the agent's three refs and the OnPyClient object *)

\* OnPyClient.__init__ ; a document or part studio object is the number of
\* the onpy document it belongs to, 0 standing for None.
NewClient ==
    [current_document |-> 0, current_partstudio |-> 0, sketches |-> {},
     planes |-> {}, features |-> <<>>, parts |-> 0]

Session(doc, ws, ps, client) ==
    [current_document |-> doc, current_workspace |-> ws,
     current_part_studio |-> ps, onshape |-> client]

\* self.features, a dict in insertion order: a sequence of [name, info]
HasFeature(feats, name) == \E i \in DOMAIN feats : feats[i].name = name
FeaturePos(feats, name) == CHOOSE i \in DOMAIN feats : feats[i].name = name
FeatureInfo(feats, name) == feats[FeaturePos(feats, name)].info
SetFeature(feats, name, info) ==
    IF HasFeature(feats, name)
    THEN [feats EXCEPT ![FeaturePos(feats, name)] = [name |-> name, info |-> info]]
    ELSE Append(feats, [name |-> name, info |-> info])

-----------------------------------------------------------------------------
(* Python operations on JSON values *)

\* key in arguments, for arguments[key]
HasArg(arguments, key) == arguments.ty = "obj" /\ key \in DOMAIN arguments.o
ArgOf(arguments, key) == arguments.o[key]

\* x / 25.4 is defined
IsNumber(x) == x.ty \in {"num", "bool"}
\* (p[0] / 25.4, p[1] / 25.4) is defined
IsPoint(p) ==
    /\ p.ty = "arr"
    /\ Len(p.items) >= 2
    /\ IsNumber(p.items[1])
    /\ IsNumber(p.items[2])
\* [(point[0] / 25.4, point[1] / 25.4) for point in points] is defined
IsPointList(points) ==
    \/ points.ty = "arr" /\ \A i \in DOMAIN points.items : IsPoint(points.items[i])
    \/ points.ty = "obj" /\ DOMAIN points.o = {}
    \/ points = Str("")
\* a value that can be a dict key
Hashable(x) == x.ty \notin {"arr", "obj"}

\* str.lower(), on the strings of the model
Lower(text) ==
    CASE text = "Top" -> "top"
      [] text = "Front" -> "front"
      [] text = "Right" -> "right"
      [] OTHER -> text

\* x / 25.4
Inch(x) == [ty |-> "inch", of |-> x]
InchPoint(p) == <<Inch(p.items[1]), Inch(p.items[2])>>
Abs(k) == IF k < 0 THEN -k ELSE k

\* One call made to the onpy library
Call(op, args) == [op |-> op, args |-> args]

-----------------------------------------------------------------------------
(* Results of a handler: it returns or raises, with the session it leaves  *)
(* and the onpy calls it made                                              *)

Ok(s, cad) == [exc |-> FALSE, err |-> "", s |-> s, cad |-> cad]
Raise(s, err, cad) == [exc |-> TRUE, err |-> err, s |-> s, cad |-> cad]

\* What the onpy library does in one step: which of its calls raises (0: none)
\* and what the extrude object offers as get_created_parts (no such method,
\* an empty list, some parts).  No step makes more than two calls, and the
\* second call of an extrude is get_created_parts.
Envs ==
    { [fail_at |-> 0, parts |-> "absent"],
      [fail_at |-> 0, parts |-> "empty"],
      [fail_at |-> 0, parts |-> "some"],
      [fail_at |-> 1, parts |-> "absent"],
      [fail_at |-> 2, parts |-> "some"] }

-----------------------------------------------------------------------------
(* OnPyClient: the methods the agent calls.  c is the client object; the   *)
(* result holds the client object the method leaves.                       *)

\* Mutant of create_document: the client starts afresh with the new
\* document, without part studio, planes, sketches, features and parts.
create_documentFresh(c, name, env) ==
    LET cad == <<Call("onpy.create_document", <<name>>)>>
    IN  IF env.fail_at = 1 THEN Raise(c, "Failed to create document", cad)
        ELSE Ok([NewClient EXCEPT !.current_document = c.current_document + 1], cad)

create_document(c, name, env) ==
    LET cad == <<Call("onpy.create_document", <<name>>)>>
    IN  IF env.fail_at = 1 THEN Raise(c, "Failed to create document", cad)
        ELSE Ok([c EXCEPT !.current_document = @ + 1], cad)

create_part_studio(c, env) ==
    IF c.current_document = 0
    THEN Raise(c, "No document selected. Create a document first.", <<>>)
    ELSE LET get == <<Call("document.get_partstudio", <<>>)>>
             c1 == [c EXCEPT !.current_partstudio = c.current_document]
             planes == get \o <<Call("partstudio.features.planes", <<>>)>>
         IN  IF env.fail_at = 1 THEN Raise(c, "onpy error", get)
             ELSE IF env.fail_at = 2 THEN Raise(c1, "onpy error", planes)
             ELSE Ok([c1 EXCEPT !.planes = {"Front", "Top", "Right"}], planes)

SketchInfo(plane_name) ==
    [type |-> "sketch", plane |-> plane_name, has_geometry |-> FALSE]

create_sketch(c, plane_name, sketch_name, env) ==
    IF c.current_partstudio = 0
    THEN Raise(c, "No part studio available. Create a part studio first.", <<>>)
    ELSE IF plane_name.ty # "str" THEN Raise(c, "Failed to get plane", <<>>)
    ELSE LET default == Lower(plane_name.v) \in {"top", "front", "right"}
             get == IF default
                    THEN <<Call("partstudio.features.plane", <<Lower(plane_name.v)>>)>>
                    ELSE <<>>
             add == get \o <<Call("partstudio.add_sketch", <<plane_name, sketch_name>>)>>
         IN  IF ~default /\ plane_name.v \notin c.planes
             THEN Raise(c, "Failed to get plane", <<>>)
             ELSE IF default /\ env.fail_at = 1 THEN Raise(c, "Failed to get plane", get)
             ELSE IF env.fail_at = 2 THEN Raise(c, "Failed to create sketch with OnPy", add)
             ELSE IF ~Hashable(sketch_name) THEN Raise(c, "unhashable type", add)
             ELSE Ok([c EXCEPT !.sketches = @ \cup {sketch_name},
                               !.features = SetFeature(@, sketch_name, SketchInfo(plane_name))],
                     add)

\* Mutant of SketchFound: the test `sketch_name not in self.sketches` is
\* left out.
SketchFoundAny(c, sketch_name) == Hashable(sketch_name)

\* sketch_name in self.sketches
SketchFound(c, sketch_name) == Hashable(sketch_name) /\ sketch_name \in c.sketches

\* has_geometry = True ; geometry_type = kind ; details = details
Overwrite(info, kind, details) ==
    Put(Put(Put(info, "has_geometry", TRUE), "geometry_type", kind), "details", details)

\* has_geometry = True ; geometry_type = kind if none is recorded, else "mixed"
Accumulate(info, kind) ==
    Put(Put(info, "has_geometry", TRUE), "geometry_type",
        IF "geometry_type" \notin DOMAIN info THEN kind ELSE "mixed")

\* Mutant of TrackOverwrite: the geometry is not recorded.
TrackOverwriteNothing(c, sketch_name, kind, details) == c

\* if sketch_name in self.features: the record of the sketch is overwritten
TrackOverwrite(c, sketch_name, kind, details) ==
    IF HasFeature(c.features, sketch_name)
    THEN [c EXCEPT !.features =
            SetFeature(@, sketch_name,
                       Overwrite(FeatureInfo(c.features, sketch_name), kind, details))]
    ELSE c

\* if sketch_name in self.features: the record of the sketch accumulates
TrackAccumulate(c, sketch_name, kind) ==
    IF HasFeature(c.features, sketch_name)
    THEN [c EXCEPT !.features =
            SetFeature(@, sketch_name,
                       Accumulate(FeatureInfo(c.features, sketch_name), kind))]
    ELSE c

add_circle_to_sketch(c, sketch_name, center, radius, env) ==
    IF ~SketchFound(c, sketch_name) THEN Raise(c, "Sketch not found", <<>>)
    ELSE IF ~IsNumber(radius) \/ ~IsPoint(center) THEN Raise(c, "TypeError", <<>>)
    ELSE LET cad == <<Call("sketch.add_circle", <<InchPoint(center), Inch(radius)>>)>>
         IN  IF env.fail_at = 1 THEN Raise(c, "Failed to add circle to sketch", cad)
             ELSE Ok(TrackOverwrite(c, sketch_name, "circle", <<"radius=", radius>>), cad)

add_rectangle_to_sketch(c, sketch_name, corner_1, corner_2, env) ==
    IF ~SketchFound(c, sketch_name) THEN Raise(c, "Sketch not found", <<>>)
    ELSE IF ~IsPoint(corner_1) \/ ~IsPoint(corner_2) THEN Raise(c, "TypeError", <<>>)
    ELSE LET cad == <<Call("sketch.add_corner_rectangle",
                            <<InchPoint(corner_1), InchPoint(corner_2)>>)>>
             width == Abs(corner_2.items[1].val - corner_1.items[1].val)
             height == Abs(corner_2.items[2].val - corner_1.items[2].val)
         IN  IF env.fail_at = 1 THEN Raise(c, "Failed to add rectangle to sketch", cad)
             ELSE Ok(TrackOverwrite(c, sketch_name, "rectangle", <<width, "x", height, "mm">>), cad)

add_line_to_sketch(c, sketch_name, start_point, end_point, env) ==
    IF ~SketchFound(c, sketch_name) THEN Raise(c, "Sketch not found", <<>>)
    ELSE IF ~IsPoint(start_point) \/ ~IsPoint(end_point) THEN Raise(c, "TypeError", <<>>)
    ELSE LET cad == <<Call("sketch.add_line",
                            <<InchPoint(start_point), InchPoint(end_point)>>)>>
         IN  IF env.fail_at = 1 THEN Raise(c, "Failed to add line to sketch", cad)
             ELSE Ok(TrackAccumulate(c, sketch_name, "line"), cad)

add_arc_to_sketch(c, sketch_name, centerpoint, radius, start_angle, end_angle, env) ==
    IF ~SketchFound(c, sketch_name) THEN Raise(c, "Sketch not found", <<>>)
    ELSE IF ~IsPoint(centerpoint) \/ ~IsNumber(radius) THEN Raise(c, "TypeError", <<>>)
    ELSE LET cad == <<Call("sketch.add_centerpoint_arc",
                            <<InchPoint(centerpoint), Inch(radius), start_angle, end_angle>>)>>
         IN  IF env.fail_at = 1 THEN Raise(c, "Failed to add arc to sketch", cad)
             ELSE Ok(TrackAccumulate(c, sketch_name, "arc"), cad)

trace_points_in_sketch(c, sketch_name, points, end_connect, env) ==
    IF ~SketchFound(c, sketch_name) THEN Raise(c, "Sketch not found", <<>>)
    ELSE IF ~IsPointList(points) THEN Raise(c, "TypeError", <<>>)
    ELSE LET inches == IF points.ty = "arr"
                       THEN [i \in DOMAIN points.items |-> InchPoint(points.items[i])]
                       ELSE <<>>
             cad == <<Call("sketch.trace_points", <<inches, end_connect>>)>>
         IN  IF env.fail_at = 1 THEN Raise(c, "Failed to trace points in sketch", cad)
             ELSE Ok(TrackAccumulate(c, sketch_name, "polyline"), cad)

\* f"Extrude {distance}mm ({operation})"
ExtrudeName(distance, operation) ==
    [ty |-> "str", v |-> "Extrude <distance>mm (<operation>)",
     distance |-> distance, operation |-> operation]

extrude_sketch_by_name(c, sketch_name, distance, operation, env) ==
    IF c.current_partstudio = 0 THEN Raise(c, "No part studio available.", <<>>)
    ELSE IF ~SketchFound(c, sketch_name) THEN Raise(c, "Sketch not found", <<>>)
    ELSE IF ~IsNumber(distance) THEN Raise(c, "TypeError", <<>>)
    ELSE IF operation.ty # "str" THEN Raise(c, "Failed to extrude sketch", <<>>)
    ELSE LET op == Lower(operation.v)
             extrude_name == ExtrudeName(distance, operation)
             subtract_from == op = "remove" /\ c.parts > 0
             add == <<Call("partstudio.add_extrude",
                           <<sketch_name, Inch(distance), extrude_name,
                             [subtract_from |-> subtract_from]>>)>>
             created == add \o <<Call("extrude.get_created_parts", <<>>)>>
             cad == IF env.parts = "absent" THEN add ELSE created
             stored == IF env.parts = "some" \/ (env.parts = "absent" /\ op = "new")
                       THEN c.parts + 1 ELSE c.parts
             info == [type |-> "extrude", operation |-> operation,
                      source_sketch |-> sketch_name, distance |-> distance]
         IN  IF env.fail_at = 1 THEN Raise(c, "Failed to extrude sketch", add)
             ELSE IF env.fail_at = 2 /\ env.parts # "absent"
                  THEN Raise(c, "Failed to extrude sketch", created)
             ELSE Ok([c EXCEPT !.parts = stored,
                               !.features = SetFeature(@, extrude_name, info)],
                     cad)

\* Mutant of revolve_sketch: _last_sketch holds the sketch created last, and
\* the revolve is added to the part studio.
revolve_sketchStored(c, env) ==
    IF c.current_partstudio = 0 THEN Raise(c, "No part studio available.", <<>>)
    ELSE IF c.sketches = {}
    THEN Raise(c, "No sketch found to revolve. Create a sketch first.", <<>>)
    ELSE Ok(c, <<>>)

\* _last_sketch is never assigned: getattr(self, '_last_sketch', None) is None
revolve_sketch(c, env) ==
    IF c.current_partstudio = 0 THEN Raise(c, "No part studio available.", <<>>)
    ELSE Raise(c, "No sketch found to revolve. Create a sketch first.", <<>>)

create_fillet(c, env) ==
    Raise(c, "Fillet operations not yet supported in OnPy integration", <<>>)

create_chamfer(c, env) ==
    Raise(c, "Chamfer operations not yet supported in OnPy integration", <<>>)

\* One line of the summary: the parts of the formatted string
SummaryLine(name, info) ==
    IF info.type = "sketch"
    THEN [name |-> name, type |-> info.type, on |-> info.plane,
          geometry |-> IF info.has_geometry
                       THEN IF "geometry_type" \in DOMAIN info
                            THEN info.geometry_type ELSE "no geometry"
                       ELSE "empty"]
    ELSE [name |-> name, type |-> info.type, of |-> info.source_sketch,
          by |-> info.distance]

\* Mutant of get_current_features_summary: the call lists the registry
\* newest first and drops the entry it listed first.
get_current_features_summaryConsuming(c) ==
    [value |-> [i \in DOMAIN c.features |->
                   SummaryLine(c.features[Len(c.features) + 1 - i].name,
                               c.features[Len(c.features) + 1 - i].info)],
     c |-> [c EXCEPT !.features = SubSeq(@, 1, Len(@) - 1)]]

\* The string returned (its lines, "No features created yet." being no line)
\* and the client object the call leaves
get_current_features_summary(c) ==
    [value |-> [i \in DOMAIN c.features |->
                   SummaryLine(c.features[i].name, c.features[i].info)],
     c |-> c]

\* [name for name, info in self.features.items() if info["type"] == "sketch"]
get_available_sketches(c) ==
    [value |-> SelectSeq([i \in DOMAIN c.features |-> c.features[i].name],
                         LAMBDA name : FeatureInfo(c.features, name).type = "sketch"),
     c |-> c]

-----------------------------------------------------------------------------
(* CADAgent._execute_tool_call: one branch per tool.  s is the session.    *)

\* The client method's result, as the result of the agent's branch
WithClient(s, r) == [r EXCEPT !.s = [s EXCEPT !.onshape = r.s]]

KeyError(s) == Raise(s, "KeyError", <<>>)
NoPartStudio(s) == Raise(s, "No part studio selected. Create a part studio first.", <<>>)

\* Mutant of Tool_create_document: arguments.get("name", "Untitled")
Tool_create_documentDefaultName(arguments, s, env) ==
    LET r == create_document(s.onshape, Get(arguments.o, "name", Str("Untitled")), env)
    IN  IF r.exc THEN WithClient(s, r)
        ELSE Ok([s EXCEPT !.onshape = r.s,
                          !.current_document = "onpy_document",
                          !.current_workspace = "onpy_workspace"], r.cad)

Tool_create_document(arguments, s, env) ==
    IF ~HasArg(arguments, "name") THEN KeyError(s)
    ELSE LET r == create_document(s.onshape, ArgOf(arguments, "name"), env)
         IN  IF r.exc THEN WithClient(s, r)
             ELSE Ok([s EXCEPT !.onshape = r.s,
                               !.current_document = "onpy_document",
                               !.current_workspace = "onpy_workspace"], r.cad)

\* search_documents_by_name, get_document_info and get_workspaces are no
\* methods of OnPyClient
Tool_select_document(arguments, s, env) ==
    IF ~HasArg(arguments, "document_id") THEN KeyError(s)
    ELSE Raise(s, "AttributeError", <<>>)

Tool_create_part_studio(arguments, s, env) ==
    IF s.current_document = "None" \/ s.current_workspace = "None"
    THEN Raise(s, "No document or workspace selected. Create a document first.", <<>>)
    ELSE IF ~HasArg(arguments, "name") THEN KeyError(s)
    ELSE LET r == create_part_studio(s.onshape, env)
         IN  IF r.exc THEN WithClient(s, r)
             ELSE Ok([s EXCEPT !.onshape = r.s,
                               !.current_part_studio = "onpy_partstudio"], r.cad)

Tool_create_sketch(arguments, s, env) ==
    IF s.current_part_studio = "None" THEN NoPartStudio(s)
    ELSE IF ~HasArg(arguments, "plane") \/ ~HasArg(arguments, "name") THEN KeyError(s)
    ELSE WithClient(s, create_sketch(s.onshape, ArgOf(arguments, "plane"),
                                     ArgOf(arguments, "name"), env))

\* Mutant of Tool_add_circle_to_sketch: the radius is passed on doubled.
Tool_add_circle_to_sketchDoubled(arguments, s, env) ==
    IF s.current_part_studio = "None" THEN NoPartStudio(s)
    ELSE IF \E k \in {"sketch_name", "center", "radius"} : ~HasArg(arguments, k)
    THEN KeyError(s)
    ELSE WithClient(s, add_circle_to_sketch(s.onshape, ArgOf(arguments, "sketch_name"),
                        ArgOf(arguments, "center"),
                        Num(2 * ArgOf(arguments, "radius").val), env))

Tool_add_circle_to_sketch(arguments, s, env) ==
    IF s.current_part_studio = "None" THEN NoPartStudio(s)
    ELSE IF \E k \in {"sketch_name", "center", "radius"} : ~HasArg(arguments, k)
    THEN KeyError(s)
    ELSE WithClient(s, add_circle_to_sketch(s.onshape, ArgOf(arguments, "sketch_name"),
                        ArgOf(arguments, "center"), ArgOf(arguments, "radius"), env))

Tool_add_rectangle_to_sketch(arguments, s, env) ==
    IF s.current_part_studio = "None" THEN NoPartStudio(s)
    ELSE IF \E k \in {"sketch_name", "corner_1", "corner_2"} : ~HasArg(arguments, k)
    THEN KeyError(s)
    ELSE WithClient(s, add_rectangle_to_sketch(s.onshape, ArgOf(arguments, "sketch_name"),
                        ArgOf(arguments, "corner_1"), ArgOf(arguments, "corner_2"), env))

Tool_add_line_to_sketch(arguments, s, env) ==
    IF \E k \in {"sketch_name", "start_point", "end_point"} : ~HasArg(arguments, k)
    THEN KeyError(s)
    ELSE WithClient(s, add_line_to_sketch(s.onshape, ArgOf(arguments, "sketch_name"),
                        ArgOf(arguments, "start_point"), ArgOf(arguments, "end_point"), env))

Tool_add_arc_to_sketch(arguments, s, env) ==
    IF \E k \in {"sketch_name", "centerpoint", "radius", "start_angle", "end_angle"} :
          ~HasArg(arguments, k)
    THEN KeyError(s)
    ELSE WithClient(s, add_arc_to_sketch(s.onshape, ArgOf(arguments, "sketch_name"),
                        ArgOf(arguments, "centerpoint"), ArgOf(arguments, "radius"),
                        ArgOf(arguments, "start_angle"), ArgOf(arguments, "end_angle"), env))

Tool_trace_points_in_sketch(arguments, s, env) ==
    IF \E k \in {"sketch_name", "points"} : ~HasArg(arguments, k) THEN KeyError(s)
    ELSE WithClient(s, trace_points_in_sketch(s.onshape, ArgOf(arguments, "sketch_name"),
                        ArgOf(arguments, "points"),
                        Get(arguments.o, "end_connect", Bool(TRUE)), env))

Tool_extrude_sketch(arguments, s, env) ==
    IF s.current_part_studio = "None" THEN NoPartStudio(s)
    ELSE IF \E k \in {"sketch_name", "endBoundOffset"} : ~HasArg(arguments, k)
    THEN KeyError(s)
    ELSE WithClient(s, extrude_sketch_by_name(s.onshape, ArgOf(arguments, "sketch_name"),
                        ArgOf(arguments, "endBoundOffset"),
                        Get(arguments.o, "operation", Str("new")), env))

Tool_revolve_sketch(arguments, s, env) ==
    IF s.current_part_studio = "None" THEN NoPartStudio(s)
    ELSE IF ~HasArg(arguments, "sketch_id") THEN KeyError(s)
    ELSE WithClient(s, revolve_sketch(s.onshape, env))

Tool_get_features(arguments, s, env) ==
    IF s.current_part_studio = "None" THEN NoPartStudio(s) ELSE Ok(s, <<>>)

Tool_get_planes(arguments, s, env) == Ok(s, <<>>)

\* Mutant of Tool_delete_feature: the feature named is taken out of the
\* client's registry.
Tool_delete_featureRemoves(arguments, s, env) ==
    IF s.current_part_studio = "None" THEN NoPartStudio(s)
    ELSE IF ~HasArg(arguments, "feature_id") THEN KeyError(s)
    ELSE Ok([s EXCEPT !.onshape.sketches = @ \ {ArgOf(arguments, "feature_id")},
                      !.onshape.features =
                          SelectSeq(@, LAMBDA f : f.name # ArgOf(arguments, "feature_id"))],
            <<>>)

\* delete_part_studio_feature is no method of OnPyClient
Tool_delete_feature(arguments, s, env) ==
    IF s.current_part_studio = "None" THEN NoPartStudio(s)
    ELSE Raise(s, "AttributeError", <<>>)

Tool_create_fillet(arguments, s, env) ==
    IF s.current_part_studio = "None" THEN NoPartStudio(s)
    ELSE IF \E k \in {"edge_queries", "radius"} : ~HasArg(arguments, k) THEN KeyError(s)
    ELSE WithClient(s, create_fillet(s.onshape, env))

Tool_create_chamfer(arguments, s, env) ==
    IF s.current_part_studio = "None" THEN NoPartStudio(s)
    ELSE IF \E k \in {"edge_queries", "distance"} : ~HasArg(arguments, k) THEN KeyError(s)
    ELSE WithClient(s, create_chamfer(s.onshape, env))

\* else: print(f"Unknown tool: {function_name}")
Tool_unknown(arguments, s, env) == Ok(s, <<>>)

ExecuteToolCall(function_name, arguments, s, env) ==
    CASE function_name = "create_document" -> Tool_create_document(arguments, s, env)
      [] function_name = "select_document" -> Tool_select_document(arguments, s, env)
      [] function_name = "create_part_studio" -> Tool_create_part_studio(arguments, s, env)
      [] function_name = "create_sketch" -> Tool_create_sketch(arguments, s, env)
      [] function_name = "add_circle_to_sketch" -> Tool_add_circle_to_sketch(arguments, s, env)
      [] function_name = "add_rectangle_to_sketch" -> Tool_add_rectangle_to_sketch(arguments, s, env)
      [] function_name = "add_line_to_sketch" -> Tool_add_line_to_sketch(arguments, s, env)
      [] function_name = "add_arc_to_sketch" -> Tool_add_arc_to_sketch(arguments, s, env)
      [] function_name = "trace_points_in_sketch" -> Tool_trace_points_in_sketch(arguments, s, env)
      [] function_name = "extrude_sketch" -> Tool_extrude_sketch(arguments, s, env)
      [] function_name = "revolve_sketch" -> Tool_revolve_sketch(arguments, s, env)
      [] function_name = "get_features" -> Tool_get_features(arguments, s, env)
      [] function_name = "get_planes" -> Tool_get_planes(arguments, s, env)
      [] function_name = "delete_feature" -> Tool_delete_feature(arguments, s, env)
      [] function_name = "create_fillet" -> Tool_create_fillet(arguments, s, env)
      [] function_name = "create_chamfer" -> Tool_create_chamfer(arguments, s, env)
      [] OTHER -> Tool_unknown(arguments, s, env)

-----------------------------------------------------------------------------
(* CADAgent._execute_planned_step *)

\* A step result, with what the step did: whether _execute_tool_call was
\* entered (dispatched) and the onpy calls made.  raised tells a value
\* returned from an exception that leaves _execute_planned_step.
StepResult(success, msg, tool, err, s, dispatched, cad) ==
    [success |-> success,
     output |-> [msg |-> msg, tool |-> tool, err |-> err],
     s |-> s, dispatched |-> dispatched, cad |-> cad, raised |-> FALSE]

\* Mutant of ToolKnown: any tool name of type string passes for a known one.
ToolKnownAnyName(tool_name) == tool_name.ty = "str"

\* tool_name not in available_tool_names
ToolKnown(tool_name) == tool_name.ty = "str" /\ tool_name.v \in available_tool_names

\* Mutant of ExecutePlannedStep: no try/except, an exception of the handler
\* or of the CAD collaborator leaves _execute_planned_step.
ExecutePlannedStepNoExcept(plan, s, env) ==
    IF Get(plan, "action", None) # Str("tool_call")
    THEN StepResult(FALSE, "Invalid action type", None, "", s, FALSE, <<>>)
    ELSE LET tool_name == Get(plan, "tool_name", None)
             tool_args == Get(plan, "tool_args", Obj(EmptyDict))
         IN  IF ~ToolKnown(tool_name)
             THEN StepResult(FALSE, "Tool not found. Available tools:", tool_name, "",
                             s, FALSE, <<>>)
             ELSE LET r == ExecuteToolCall(tool_name.v, tool_args, s, env)
                  IN  IF r.exc
                      THEN [StepResult(FALSE, "", tool_name, r.err, r.s, TRUE, r.cad)
                               EXCEPT !.raised = TRUE]
                      ELSE StepResult(TRUE, "Successfully executed", tool_name, "",
                                      r.s, TRUE, r.cad)

ExecutePlannedStep(plan, s, env) ==
    IF Get(plan, "action", None) # Str("tool_call")
    THEN StepResult(FALSE, "Invalid action type", None, "", s, FALSE, <<>>)
    ELSE LET tool_name == Get(plan, "tool_name", None)
             tool_args == Get(plan, "tool_args", Obj(EmptyDict))
         IN  IF ~ToolKnown(tool_name)
             THEN StepResult(FALSE, "Tool not found. Available tools:", tool_name, "",
                             s, FALSE, <<>>)
             ELSE LET r == ExecuteToolCall(tool_name.v, tool_args, s, env)
                  IN  IF r.exc
                      THEN StepResult(FALSE, "Failed to execute", tool_name, r.err,
                                      r.s, TRUE, r.cad)
                      ELSE StepResult(TRUE, "Successfully executed", tool_name, "",
                                      r.s, TRUE, r.cad)

-----------------------------------------------------------------------------
(* State *)

NoResponse == [kind |-> "init", toks |-> <<>>]

NoExec ==
    [called |-> FALSE, plan |-> EmptyDict, success |-> FALSE,
     output |-> [msg |-> "", tool |-> None, err |-> ""],
     dispatched |-> FALSE, cad |-> <<>>, raised |-> FALSE]

\* Mutant of PlanningPrompt: the prompt shows the registry of a new client
\* in place of the session's.
PlanningPromptNoSession(ctx, s) ==
    [context |-> ctx,
     document |-> s.current_document,
     workspace |-> s.current_workspace,
     part_studio |-> s.current_part_studio,
     features |-> get_current_features_summary(NewClient).value,
     sketches |-> get_available_sketches(NewClient).value]

\* planning_prompt: the parts of the f-string that vary, the history, the
\* three refs, the features summary and the available sketches
PlanningPrompt(ctx, s) ==
    [context |-> ctx,
     document |-> s.current_document,
     workspace |-> s.current_workspace,
     part_studio |-> s.current_part_studio,
     features |-> get_current_features_summary(s.onshape).value,
     sketches |-> get_available_sketches(s.onshape).value]

\* No planner call has been made
NoPrompt == PlanningPrompt(<<>>, Session("None", "None", "None", NewClient))

MaxStepsMessage == Str("Agent workflow completed or reached maximum steps.")
DefaultCompleteMessage == Str("Part creation completed successfully!")
ErrorCreatingPart == Str("Error creating part: <error>")

\* The session in the variables
Sess == Session(current_document, current_workspace, current_part_studio, onshape)

SetSess(s) ==
    /\ current_document' = s.current_document
    /\ current_workspace' = s.current_workspace
    /\ current_part_studio' = s.current_part_studio
    /\ onshape' = s.onshape

\* The counters of the model stay within its bounds
WithinBounds(s) ==
    /\ s.onshape.current_document <= MaxDocs
    /\ s.onshape.parts <= MaxParts

\* The answers the language model may give to the k-th planner call of a run
LLMAnswers(k) == llm[IF k <= Len(llm) THEN k ELSE Len(llm)]

\* CADAgent.__init__ ; no request is running
InitAgent ==
    /\ current_document = "None"
    /\ current_workspace = "None"
    /\ current_part_studio = "None"
    /\ onshape = NewClient
    /\ pc = "idle"
    /\ step_count = 0
    /\ context = <<>>
    /\ next_action = EmptyDict
    /\ result = None
    /\ exit = "none"
    /\ response = NoResponse
    /\ runs = 0
    /\ planner_calls = 0
    /\ executor_calls = 0
    /\ last_exec = NoExec
    /\ planning_prompt = NoPrompt

-----------------------------------------------------------------------------
(* CADAgent.create_part_from_description and CADAgent._agentic_workflow *)

\* The call, up to the first test of the while loop
CreatePart ==
    /\ pc = "idle"
    /\ runs < MaxRuns
    /\ runs' = runs + 1
    /\ pc' = "loop"
    /\ step_count' = 0
    /\ context' = <<>>
    /\ next_action' = EmptyDict
    /\ result' = None
    /\ exit' = "none"
    /\ response' = NoResponse
    /\ planner_calls' = 0
    /\ executor_calls' = 0
    /\ last_exec' = NoExec
    /\ planning_prompt' = NoPrompt
    /\ UNCHANGED <<session, llm>>

\* Mutant of AfterPlan: the test for `complete` is left out, and every plan
\* goes to the executor.
AfterPlanNoComplete(p) ==
    IF p.raised
    THEN /\ pc' = "idle"
         /\ exit' = "exception"
         /\ result' = ErrorCreatingPart
         /\ UNCHANGED next_action
    ELSE /\ next_action' = p.plan
         /\ pc' = "executing"
         /\ UNCHANGED <<exit, result>>

\* What the loop does with the planner's answer: an exception leaves
\* _agentic_workflow and is caught by create_part_from_description.
AfterPlan(p) ==
    IF p.raised
    THEN /\ pc' = "idle"
         /\ exit' = "exception"
         /\ result' = ErrorCreatingPart
         /\ UNCHANGED next_action
    ELSE /\ next_action' = p.plan
         /\ IF Get(p.plan, "action", None) = Str("complete")
            THEN /\ pc' = "idle"
                 /\ exit' = "complete"
                 /\ result' = Get(p.plan, "message", DefaultCompleteMessage)
            ELSE /\ pc' = "executing"
                 /\ UNCHANGED <<exit, result>>

\* Mutant of PlanStep: while step_count <= max_steps
PlanStepOneMore ==
    /\ pc = "loop"
    /\ step_count <= max_steps
    /\ step_count' = step_count + 1
    /\ planner_calls' = planner_calls + 1
    /\ \E resp \in LLMAnswers(planner_calls + 1) :
          /\ response' = resp
          /\ AfterPlan(PlanNextStep(resp))
    /\ planning_prompt' = PlanningPrompt(context, Sess)
    /\ UNCHANGED <<session, context, llm, runs, executor_calls, last_exec>>

\* while step_count < max_steps: step_count += 1 ; next_action = plan
PlanStep ==
    /\ pc = "loop"
    /\ step_count < max_steps
    /\ step_count' = step_count + 1
    /\ planner_calls' = planner_calls + 1
    /\ \E resp \in LLMAnswers(planner_calls + 1) :
          /\ response' = resp
          /\ AfterPlan(PlanNextStep(resp))
    /\ planning_prompt' = PlanningPrompt(context, Sess)
    /\ UNCHANGED <<session, context, llm, runs, executor_calls, last_exec>>

Executed(plan, r) ==
    [called |-> TRUE, plan |-> plan, success |-> r.success, output |-> r.output,
     dispatched |-> r.dispatched, cad |-> r.cad, raised |-> r.raised]

\* Mutant of HistoryRecord: the record keeps the description and drops the
\* result line.
HistoryRecordNoResult(n, plan, r) ==
    [step |-> n,
     description |-> Get(plan, "description", Str("Unknown action")),
     output |-> [msg |-> "", tool |-> None, err |-> ""]]

\* context += f"\n\nStep {step_count}: {description}" + f"\nResult: {output}"
HistoryRecord(n, plan, r) ==
    [step |-> n,
     description |-> Get(plan, "description", Str("Unknown action")),
     output |-> r.output]

\* Mutant of AfterStep: no break, a failed step goes back to the while test.
AfterStepNoBreak(r) ==
    /\ pc' = "loop"
    /\ UNCHANGED <<exit, result>>

\* Mutant of AfterStep: after a successful step the loop executes the plan
\* in hand again, without asking the planner.
AfterStepNoReplan(r) ==
    IF r.success
    THEN /\ pc' = "executing"
         /\ UNCHANGED <<exit, result>>
    ELSE /\ pc' = "idle"
         /\ exit' = "break"
         /\ result' = MaxStepsMessage

\* if not step_result['success']: break ; then the return after the loop.
\* An exception out of the executor leaves _agentic_workflow and is caught by
\* create_part_from_description.
AfterStep(r) ==
    IF r.raised
    THEN /\ pc' = "idle"
         /\ exit' = "exception"
         /\ result' = ErrorCreatingPart
    ELSE IF r.success
    THEN /\ pc' = "loop"
         /\ UNCHANGED <<exit, result>>
    ELSE /\ pc' = "idle"
         /\ exit' = "break"
         /\ result' = MaxStepsMessage

\* step_result = _execute_planned_step(next_action) and the rest of the body
ExecuteStep ==
    /\ pc = "executing"
    /\ \E env \in Envs :
          LET r == ExecutePlannedStep(next_action, Sess, env)
          IN  /\ WithinBounds(r.s)
              /\ SetSess(r.s)
              /\ last_exec' = Executed(next_action, r)
              /\ context' = IF r.raised THEN context
                             ELSE Append(context, HistoryRecord(step_count, next_action, r))
              /\ AfterStep(r)
    /\ executor_calls' = executor_calls + 1
    /\ UNCHANGED <<step_count, next_action, response, llm, runs, planner_calls,
                   planning_prompt>>

\* The while test fails: return "Agent workflow completed or reached maximum steps."
BudgetExit ==
    /\ pc = "loop"
    /\ step_count >= max_steps
    /\ pc' = "idle"
    /\ exit' = "budget"
    /\ result' = MaxStepsMessage
    /\ UNCHANGED <<session, step_count, context, next_action, response, llm, runs,
                   planner_calls, executor_calls, last_exec, planning_prompt>>

\* CADAgent.reset_session, between two requests
\* Mutant of ResetSession: the document and workspace refs are cleared, the
\* part-studio ref is kept.
ResetSessionDocumentOnly ==
    /\ pc = "idle"
    /\ current_document' = "None"
    /\ current_workspace' = "None"
    /\ UNCHANGED <<current_part_studio, onshape, pc, step_count, context,
                   next_action, result, exit, response, llm, runs, planner_calls,
                   executor_calls, last_exec, planning_prompt>>

ResetSession ==
    /\ pc = "idle"
    /\ current_document' = "None"
    /\ current_workspace' = "None"
    /\ current_part_studio' = "None"
    /\ UNCHANGED <<onshape, pc, step_count, context, next_action, result, exit,
                   response, llm, runs, planner_calls, executor_calls, last_exec,
                   planning_prompt>>

\* Where the loop stands, in the words of the specification
LoopState ==
    CASE pc = "loop" -> "PLANNING"
      [] pc = "executing" -> "EXECUTING"
      [] pc = "idle" /\ exit \in {"complete", "budget"} -> "DONE"
      [] pc = "idle" /\ exit = "break" -> "FAILED"
      [] pc = "idle" /\ exit = "exception" -> "ERROR"
      [] OTHER -> "IDLE"

-----------------------------------------------------------------------------
(* The answers of the language model that the specifications draw from *)

\* {"action": "tool_call", "tool_name": ..., "tool_args": {...}}
ToolCallText(name, args) ==
    <<LB, "a:tool_call", name, "d:step", ArgsKey, LB>> \o args \o <<RB, RB>>

\* The answers of the specification of the loop
LoopResponses ==
    { Text(ToolCallText("n:create_document", <<"name=Part">>)),
      Text(ToolCallText("n:create_sketch", <<"plane=Top", "name=S1">>)),
      Text(ToolCallText("n:make_gear", <<>>)),
      Text(<<LB, "a:tool_call", "n:get_planes", RB>>),
      Text(<<LB, "a:tool_call", RB>>),
      Text(<<LB, "a:complete", "m:ok", RB>>),
      Text(<<LB, "a:complete", RB>>),
      Text(<<LB, "a:complete", "m:null", RB>>),
      Text(<<LB, "a:bogus", "m:ok", RB>>),
      Text(<<LB, "d:step", RB>>),
      Text(<<Prose>>),
      Text(<<Prose, LB, "a:complete", "m:ok", RB, Prose>>),
      Text(<<LB, Prose, RB>>),
      Text(<<LB, "a:complete", "m:ok", RB, Prose, LB, RB>>),
      NoContent,
      LLMError }

\* The tokens of the texts of the specification of the parser
ParseTokens == {LB, RB, Prose, "a:complete", "m:ok", ArgsKey}

RECURSIVE TextsOfLen(_)
TextsOfLen(k) ==
    IF k = 0 THEN {<<>>}
    ELSE {Append(s, tok) : s \in TextsOfLen(k - 1), tok \in ParseTokens}

ParseTexts == UNION {TextsOfLen(k) : k \in 0..MaxRespLen}

\* The answers of the specification of the executor
S1Args == <<"sketch_name=S1">>
ExecResponses ==
    { Text(ToolCallText("n:create_document", <<"name=Part">>)),
      Text(ToolCallText("n:create_part_studio", <<"name=Part">>)),
      Text(ToolCallText("n:create_sketch", <<"plane=Top", "name=S1">>)),
      Text(ToolCallText("n:add_circle_to_sketch",
                        S1Args \o <<"center=[0,0]", "radius=25">>)),
      Text(ToolCallText("n:add_circle_to_sketch",
                        S1Args \o <<"center=[0,0]", "radius=25mm">>)),
      Text(ToolCallText("n:add_line_to_sketch",
                        S1Args \o <<"start_point=[0,0]", "end_point=[5,5]">>)),
      Text(ToolCallText("n:add_line_to_sketch",
                        S1Args \o <<"start_point=[0mm,0]", "end_point=[5,5]">>)),
      Text(ToolCallText("n:add_arc_to_sketch",
                        S1Args \o <<"centerpoint=[0,0]", "radius=25",
                                    "start_angle=0", "end_angle=90">>)),
      Text(ToolCallText("n:add_arc_to_sketch",
                        S1Args \o <<"centerpoint=[0,0]", "radius=25mm",
                                    "start_angle=0", "end_angle=90">>)),
      Text(ToolCallText("n:add_arc_to_sketch",
                        S1Args \o <<"centerpoint=[0,0]", "radius=25",
                                    "start_angle=0deg", "end_angle=90">>)),
      Text(ToolCallText("n:extrude_sketch",
                        S1Args \o <<"endBoundOffset=20", "operation=new">>)),
      Text(ToolCallText("n:extrude_sketch",
                        S1Args \o <<"endBoundOffset=20mm", "operation=new">>)),
      Text(ToolCallText("n:revolve_sketch",
                        <<"sketch_id=S1", "axis=[0,0,1]", "angle=360deg">>)),
      Text(ToolCallText("n:create_fillet", <<"edge_queries=[e1]", "radius=25mm">>)),
      Text(ToolCallText("n:create_chamfer", <<"edge_queries=[e1]", "distance=2mm">>)),
      Text(ToolCallText("n:make_gear", <<"radius=25">>)),
      Text(<<LB, "a:tool_call", "n:get_planes", RB>>) }

-----------------------------------------------------------------------------
(* Specifications *)

\* The agent serving requests
Init ==
    /\ InitAgent
    /\ llm = <<LoopResponses>>

Next ==
    \/ CreatePart
    \/ PlanStep
    \/ ExecuteStep
    \/ BudgetExit
    \/ ResetSession

Spec == Init /\ [][Next]_vars

\* The planner on every text of the parser's tokens: a request has just
\* entered the loop, and the language model answers with one text.
InitParse ==
    /\ current_document = "None"
    /\ current_workspace = "None"
    /\ current_part_studio = "None"
    /\ onshape = NewClient
    /\ pc = "loop"
    /\ step_count = 0
    /\ context = <<>>
    /\ next_action = EmptyDict
    /\ result = None
    /\ exit = "none"
    /\ response = NoResponse
    /\ runs = 1
    /\ planner_calls = 0
    /\ executor_calls = 0
    /\ last_exec = NoExec
    /\ planning_prompt = NoPrompt
    /\ llm \in {<<{Text(toks)}>> : toks \in ParseTexts}

NextParse ==
    \/ PlanStep
    \/ ExecuteStep

SpecParse == InitParse /\ [][NextParse]_vars

\* The plans the planner makes of a set of answers
PlansOf(answers) == {PlanNextStep(resp).plan : resp \in answers}

ExecPlans == PlansOf(ExecResponses)

\* _execute_planned_step on one of the given plans, between two requests
CallExecutorOn(plans) ==
    /\ pc = "idle"
    /\ \E plan \in plans, env \in Envs :
          LET r == ExecutePlannedStep(plan, Sess, env)
          IN  /\ WithinBounds(r.s)
              /\ SetSess(r.s)
              /\ last_exec' = Executed(plan, r)
    /\ UNCHANGED <<pc, step_count, context, next_action, result, exit, response,
                   llm, runs, planner_calls, executor_calls, planning_prompt>>

\* The executor on the plans of the executor's answers, one call after the
\* other on the same agent
CallExecutor == CallExecutorOn(ExecPlans)

InitExec ==
    /\ InitAgent
    /\ llm = <<ExecResponses>>

NextExec ==
    \/ CallExecutor
    \/ ResetSession

SpecExec == InitExec /\ [][NextExec]_vars

-----------------------------------------------------------------------------
(* Properties of the agent loop *)

ActionOf(plan) == Get(plan, "action", None)

\* C1: in every run the planner is consulted at most max_steps (10) times and
\* the executor is invoked at most max_steps times; once max_steps steps have
\* executed successfully no further planner call is possible (the while test
\* fails), and the run then ends DONE with the maximum-steps message.
C1_StepBudget ==
    /\ planner_calls <= max_steps
    /\ executor_calls <= max_steps
    /\ executor_calls <= planner_calls
    /\ planner_calls = step_count
    /\ (executor_calls = max_steps /\ last_exec.success)
          => \/ pc = "loop" /\ step_count >= max_steps
             \/ /\ exit = "budget"
                /\ LoopState = "DONE"
                /\ result = MaxStepsMessage
    /\ exit = "budget"
          => /\ executor_calls = max_steps
             /\ planner_calls = max_steps
             /\ last_exec.success
             /\ result = MaxStepsMessage

C1_Witness ==
    /\ exit = "budget"
    /\ LoopState = "DONE"
    /\ planner_calls = max_steps
    /\ executor_calls = max_steps
    /\ Len(context) = max_steps
    /\ result = MaxStepsMessage

\* C2: a step whose result has success = false moves the loop to FAILED at
\* once, and in the rest of that run there is no further planner call and no
\* further executor call (so no retry of the failed operation).
C2_FailureStops ==
    [][ /\ (executor_calls' = executor_calls + 1 /\ ~last_exec'.success)
            => (pc' = "idle" /\ exit' = "break")
        /\ (exit = "break" /\ runs' = runs)
            => /\ planner_calls' = planner_calls
               /\ executor_calls' = executor_calls
               /\ last_exec' = last_exec
               /\ context' = context
               /\ exit' = "break" ]_vars

C2_Witness ==
    /\ LoopState = "FAILED"
    /\ executor_calls = 2
    /\ last_exec.called
    /\ ~last_exec.success
    /\ last_exec.dispatched

\* C3: when the planner's decision has action = complete the loop is DONE
\* with the decision's message as its result (the default message when the
\* decision has none), the executor is not invoked for that iteration, and
\* it is not invoked later in the run.
C3_CompleteEnds ==
    /\ [](ActionOf(next_action) = Str("complete")
            => /\ LoopState = "DONE"
               /\ exit = "complete"
               /\ result = Get(next_action, "message", DefaultCompleteMessage)
               /\ executor_calls = planner_calls - 1)
    /\ [][(exit = "complete" /\ runs' = runs)
            => /\ executor_calls' = executor_calls
               /\ planner_calls' = planner_calls
               /\ last_exec' = last_exec
               /\ exit' = "complete"]_vars

C3_Witness ==
    /\ exit = "complete"
    /\ planner_calls = 3
    /\ executor_calls = 2
    /\ next_action = Put(Put(EmptyDict, "action", Str("complete")), "message", Str("ok"))
    /\ result = Str("ok")

-----------------------------------------------------------------------------
(* Properties of the planner's reading of the response *)

\* The session of a newly constructed agent
FreshSession == Session("None", "None", "None", NewClient)

\* The planner has answered the first call of the run with a text
Planned == planner_calls >= 1 /\ response.kind = "text"

\* No opening brace of the text has a closing brace after it
NoBracePair(toks) ==
    ~\E i, j \in 1..Len(toks) : i < j /\ toks[i] = LB /\ toks[j] = RB

\* Some substring of the text is a JSON object
HasJsonObject(toks) ==
    \E i, j \in 1..Len(toks) : i <= j /\ JsonLoads(SubSeq(toks, i, j)).ok

\* The run is over with the given diagnostic, and nothing was executed
EndedWith(message) ==
    /\ next_action = CompletePlan(message)
    /\ LoopState = "DONE"
    /\ result = Str(message)
    /\ executor_calls = 0
    /\ ~last_exec.called
    /\ Sess = FreshSession

\* C4 (as amended): if no opening brace of the response text is followed by
\* a closing brace, the planner returns a complete decision whose message is
\* "Could not find JSON in planning response", and the loop ends DONE without
\* any executor call and with the session unchanged.
C4_NoBracePair ==
    (Planned /\ NoBracePair(response.toks)) => EndedWith(CouldNotFindJSON)

C4_Witness ==
    /\ Planned
    /\ response.toks = <<RB, Prose, LB>>
    /\ EndedWith(CouldNotFindJSON)

\* C4 (as stated): if the response contains no JSON object at all, the
\* message is "Could not find JSON" and the loop ends DONE with nothing
\* executed.
C4_NoJsonObject ==
    (Planned /\ ~HasJsonObject(response.toks)) => EndedWith(CouldNotFindJSON)

\* C5: for every response text the planner returns a decision and never
\* raises: the decision is a JSON object of the text or a complete decision
\* with a diagnostic, and it is the latter, with the loop ending DONE and
\* nothing executed, whenever the text holds no JSON object.
C5_PlannerNeverRaises ==
    Planned =>
        /\ exit # "exception"
        /\ result # ErrorCreatingPart
        /\ \/ \E i, j \in 1..Len(response.toks) :
                 /\ i <= j
                 /\ JsonLoads(SubSeq(response.toks, i, j)).ok
                 /\ next_action = JsonLoads(SubSeq(response.toks, i, j)).obj
           \/ EndedWith(CouldNotFindJSON)
           \/ EndedWith(PlanningFailed)
        /\ ~HasJsonObject(response.toks)
              => EndedWith(CouldNotFindJSON) \/ EndedWith(PlanningFailed)

C5_Witness ==
    /\ Planned
    /\ response.toks = <<LB, Prose, RB>>
    /\ EndedWith(PlanningFailed)

\* C6 (as stated): if the parsed decision object has no action, or an action
\* other than tool_call and complete, the planner returns a complete
\* decision, the loop ends DONE and not FAILED, and the executor is not
\* called.
C6_UnknownActionCompletes ==
    (/\ Planned
     /\ JsonLoads(response.toks).ok
     /\ ActionOf(JsonLoads(response.toks).obj) \notin {Str("tool_call"), Str("complete")})
    => /\ ActionOf(next_action) = Str("complete")
       /\ LoopState = "DONE"
       /\ executor_calls = 0

\* C7 (as stated): for a response made of a valid decision object followed
\* by further text that contains braces, the returned decision equals that
\* first object.
C7_FirstObject ==
    Planned =>
        \A k \in 1..Len(response.toks) :
            (/\ JsonLoads(SubSeq(response.toks, 1, k)).ok
             /\ ActionOf(JsonLoads(SubSeq(response.toks, 1, k)).obj)
                   \in {Str("tool_call"), Str("complete")}
             /\ \E i \in (k + 1)..Len(response.toks) : response.toks[i] \in {LB, RB})
            => next_action = JsonLoads(SubSeq(response.toks, 1, k)).obj

-----------------------------------------------------------------------------
(* Properties of validation and dispatch *)

\* The plan is a tool_call whose tool_name is no name of the catalog
UnknownTool(plan) ==
    /\ ActionOf(plan) = Str("tool_call")
    /\ Get(plan, "tool_name", None) \notin {Str(n) : n \in available_tool_names}

\* C8: a tool_call decision whose tool_name is not in the catalog is never
\* dispatched: the step fails as "tool not found", no handler runs, no onpy
\* call is made, and the session (the three refs and the client's registry)
\* is as it was.
C8_UnknownToolNotDispatched ==
    [][(pc = "executing" /\ UnknownTool(next_action))
        => /\ session' = session
           /\ last_exec'.called
           /\ last_exec'.plan = next_action
           /\ ~last_exec'.dispatched
           /\ last_exec'.cad = <<>>
           /\ ~last_exec'.success
           /\ last_exec'.output.msg = "Tool not found. Available tools:"]_vars

C8_Witness ==
    /\ last_exec.called
    /\ UnknownTool(last_exec.plan)
    /\ Get(last_exec.plan, "tool_name", None) = Str("make_gear")
    /\ ~last_exec.dispatched
    /\ executor_calls = 2
    /\ current_document # "None"
    /\ onshape.current_document = 1

\* C9 (as amended): when a tool_call decision names a tool that is not in
\* the catalog, the loop appends the failed step's record, with the
\* tool-not-found output, to the history; the step has used one unit of the
\* step budget; and the loop ends FAILED with the planner not consulted
\* again.
C9_UnknownToolFails ==
    [][(pc = "executing" /\ UnknownTool(next_action))
        => /\ Len(context') = Len(context) + 1
           /\ context'[Len(context')].step = step_count
           /\ context'[Len(context')].output = last_exec'.output
           /\ context'[Len(context')].output.msg = "Tool not found. Available tools:"
           /\ SubSeq(context', 1, Len(context)) = context
           /\ step_count' = step_count
           /\ step_count = planner_calls
           /\ step_count = executor_calls'
           /\ planner_calls' = planner_calls
           /\ pc' = "idle"
           /\ exit' = "break"
           /\ result' = MaxStepsMessage]_vars

C9_Witness ==
    /\ LoopState = "FAILED"
    /\ UnknownTool(next_action)
    /\ planner_calls = 3
    /\ step_count = 3
    /\ Len(context) = 3
    /\ context[3].output.msg = "Tool not found. Available tools:"
    /\ context[3].output.tool = Str("make_gear")

\* C9 (as stated): when a tool_call decision fails validation the loop
\* appends a validation-failure record to the history, uses one unit of the
\* step budget and goes back to PLANNING instead of terminating.
C9_BackToPlanning ==
    [][(pc = "executing" /\ UnknownTool(next_action))
        => /\ Len(context') = Len(context) + 1
           /\ step_count' = step_count
           /\ pc' = "loop"
           /\ exit' = "none"]_vars

\* The arguments give a string, or a list holding a string, for a parameter
\* the catalog declares a number or a list of numbers
NumberParams ==
    {"radius", "endBoundOffset", "angle", "distance", "start_angle", "end_angle"}
PointParams == {"center", "centerpoint", "start_point", "end_point", "axis"}

StringForNumber(plan) ==
    /\ ActionOf(plan) = Str("tool_call")
    /\ LET tool_args == Get(plan, "tool_args", Obj(EmptyDict))
       IN  /\ tool_args.ty = "obj"
           /\ \/ \E k \in NumberParams \cap DOMAIN tool_args.o : tool_args.o[k].ty = "str"
              \/ \E k \in PointParams \cap DOMAIN tool_args.o :
                    /\ tool_args.o[k].ty = "arr"
                    /\ \E i \in DOMAIN tool_args.o[k].items :
                          tool_args.o[k].items[i].ty = "str"

\* C10 (as stated): a tool_call that gives a string such as "25mm" for a
\* number-typed parameter is rejected: the step fails and no onpy call is
\* made for it, so the value is never passed on to the CAD collaborator.
C10_StringNumberRejected ==
    (last_exec.called /\ StringForNumber(last_exec.plan))
    => /\ ~last_exec.success
       /\ last_exec.cad = <<>>

-----------------------------------------------------------------------------
(* The executor on calls with missing and misshapen arguments *)

\* A call of each catalog tool with every declared-required argument, fit
\* for a session that holds the sketch S1
CompleteCalls ==
    { <<"n:create_document", <<"name=Part">>>>,
      <<"n:select_document", <<"document_id=D">>>>,
      <<"n:create_part_studio", <<"name=Part">>>>,
      <<"n:create_sketch", <<"plane=Top", "name=S1">>>>,
      <<"n:add_circle_to_sketch", <<"sketch_name=S1", "center=[0,0]", "radius=25">>>>,
      <<"n:add_rectangle_to_sketch",
        <<"sketch_name=S1", "corner_1=[0,0]", "corner_2=[5,5]">>>>,
      <<"n:add_line_to_sketch",
        <<"sketch_name=S1", "start_point=[0,0]", "end_point=[5,5]">>>>,
      <<"n:add_arc_to_sketch",
        <<"sketch_name=S1", "centerpoint=[0,0]", "radius=25",
          "start_angle=0", "end_angle=90">>>>,
      <<"n:trace_points_in_sketch", <<"sketch_name=S1", "points=[[0,0],[5,5]]">>>>,
      <<"n:extrude_sketch", <<"sketch_name=S1", "endBoundOffset=20">>>>,
      <<"n:revolve_sketch", <<"sketch_id=S1", "axis=[0,0,1]", "angle=360">>>>,
      <<"n:delete_feature", <<"feature_id=F">>>>,
      <<"n:create_fillet", <<"edge_queries=[e1]", "radius=25">>>>,
      <<"n:create_chamfer", <<"edge_queries=[e1]", "distance=2">>>> }

\* The arguments without the i-th
Omitting(args, i) == SubSeq(args, 1, i - 1) \o SubSeq(args, i + 1, Len(args))

\* Each complete call with one of its arguments left out
OmitResponses ==
    UNION { {Text(ToolCallText(call[1], Omitting(call[2], i))) : i \in 1..Len(call[2])} :
            call \in CompleteCalls }

\* The calls that build a session: a document, its part studio, the sketch S1
SetupResponses ==
    { Text(ToolCallText("n:create_document", <<"name=Part">>)),
      Text(ToolCallText("n:create_part_studio", <<"name=Part">>)),
      Text(ToolCallText("n:create_sketch", <<"plane=Top", "name=S1">>)) }

\* Circles whose center has three numbers, and one number
ArityResponses ==
    { Text(ToolCallText("n:add_circle_to_sketch",
                        <<"sketch_name=S1", "center=[0,0,5]", "radius=25">>)),
      Text(ToolCallText("n:add_circle_to_sketch",
                        <<"sketch_name=S1", "center=[0]", "radius=25">>)) }

ArgResponses == SetupResponses \cup OmitResponses \cup ArityResponses

ArgPlans == PlansOf(ArgResponses)

CallWithArgs == CallExecutorOn(ArgPlans)

InitArgs ==
    /\ InitAgent
    /\ llm = <<ArgResponses>>

NextArgs ==
    \/ CallWithArgs
    \/ ResetSession

SpecArgs == InitArgs /\ [][NextArgs]_vars

\* The plan is a call of a catalog tool without one of its required parameters
OmitsRequired(plan) ==
    /\ ActionOf(plan) = Str("tool_call")
    /\ ~UnknownTool(plan)
    /\ LET tool_args == Get(plan, "tool_args", Obj(EmptyDict))
       IN  \E k \in Required[Get(plan, "tool_name", None).v] : k \notin DOMAIN tool_args.o

\* C11: in every session state, a tool_call that omits one of the tool's
\* required parameters is rejected: whatever the CAD collaborator would do,
\* the step reports failure, makes no onpy call and leaves the session as it
\* was; and every such call that was executed has failed.
C11_MissingRequiredRejected ==
    /\ \A plan \in ArgPlans, env \in Envs :
          OmitsRequired(plan) =>
              LET r == ExecutePlannedStep(plan, Sess, env)
              IN  /\ ~r.success
                  /\ r.cad = <<>>
                  /\ r.s = Sess
    /\ (last_exec.called /\ OmitsRequired(last_exec.plan))
          => ~last_exec.success /\ last_exec.cad = <<>>

C11_Witness ==
    /\ last_exec.called
    /\ OmitsRequired(last_exec.plan)
    /\ Get(last_exec.plan, "tool_name", None) = Str("add_circle_to_sketch")
    /\ last_exec.output.err = "KeyError"
    /\ current_part_studio # "None"
    /\ Str("S1") \in onshape.sketches

\* The parameters the catalog declares as a point: an array of two numbers
PointArrayParams ==
    {"center", "corner_1", "corner_2", "start_point", "end_point", "centerpoint"}

\* The arguments give a point parameter, or an element of points, an array
\* that has not exactly two items
WrongArity(plan) ==
    /\ ActionOf(plan) = Str("tool_call")
    /\ LET tool_args == Get(plan, "tool_args", Obj(EmptyDict))
       IN  /\ tool_args.ty = "obj"
           /\ \/ \E k \in PointArrayParams \cap DOMAIN tool_args.o :
                    tool_args.o[k].ty = "arr" /\ Len(tool_args.o[k].items) # 2
              \/ /\ "points" \in DOMAIN tool_args.o
                 /\ tool_args.o["points"].ty = "arr"
                 /\ \E i \in DOMAIN tool_args.o["points"].items :
                       /\ tool_args.o["points"].items[i].ty = "arr"
                       /\ Len(tool_args.o["points"].items[i].items) # 2

\* C12 (as stated): a tool_call that gives a point parameter fewer or more
\* than two numbers is rejected and never reaches the CAD collaborator: the
\* step fails and makes no onpy call.
C12_PointArityChecked ==
    (last_exec.called /\ WrongArity(last_exec.plan))
    => /\ ~last_exec.success
       /\ last_exec.cad = <<>>

-----------------------------------------------------------------------------
(* The loop on steps that name a sketch the session does not hold *)

\* The six tools that take sketch_name, each on the sketch "S2" with
\* arguments that are otherwise valid
S2Args == <<"sketch_name=S2">>
OnSketchS2 ==
    { Text(ToolCallText("n:add_circle_to_sketch",
                        S2Args \o <<"center=[0,0]", "radius=25">>)),
      Text(ToolCallText("n:add_rectangle_to_sketch",
                        S2Args \o <<"corner_1=[0,0]", "corner_2=[5,5]">>)),
      Text(ToolCallText("n:add_line_to_sketch",
                        S2Args \o <<"start_point=[0,0]", "end_point=[5,5]">>)),
      Text(ToolCallText("n:add_arc_to_sketch",
                        S2Args \o <<"centerpoint=[0,0]", "radius=25",
                                    "start_angle=0", "end_angle=90">>)),
      Text(ToolCallText("n:trace_points_in_sketch",
                        S2Args \o <<"points=[[0,0],[5,5]]">>)),
      Text(ToolCallText("n:extrude_sketch",
                        S2Args \o <<"endBoundOffset=20", "operation=new">>)) }

\* Calls, with every required argument, of the tools whose handlers reach
\* for what OnPyClient does not have
NeverResponses ==
    { Text(ToolCallText("n:select_document", <<"document_id=D">>)),
      Text(ToolCallText("n:revolve_sketch",
                        <<"sketch_id=S1", "axis=[0,0,1]", "angle=360">>)),
      Text(ToolCallText("n:delete_feature", <<"feature_id=S1">>)),
      Text(ToolCallText("n:create_fillet", <<"edge_queries=[e1]", "radius=25">>)),
      Text(ToolCallText("n:create_chamfer", <<"edge_queries=[e1]", "distance=2">>)) }

NeverPlans == PlansOf(NeverResponses)

\* The language model builds a document, a part studio and the sketch "S1",
\* and may at every step name the sketch "S2" instead, or call one of the
\* tools above
Detours == OnSketchS2 \cup NeverResponses

SketchScript ==
    << Detours \cup {Text(ToolCallText("n:create_document", <<"name=Part">>))},
       Detours \cup {Text(ToolCallText("n:create_part_studio", <<"name=Part">>))},
       Detours \cup {Text(ToolCallText("n:create_sketch", <<"plane=Top", "name=S1">>))},
       Detours \cup {Text(ToolCallText("n:add_circle_to_sketch",
                                       S1Args \o <<"center=[0,0]", "radius=25">>))},
       Detours \cup {Text(<<LB, "a:complete", "m:ok", RB>>)} >>

InitSketch ==
    /\ InitAgent
    /\ llm = SketchScript

NextSketch ==
    \/ CreatePart
    \/ PlanStep
    \/ ExecuteStep
    \/ ResetSession

SpecSketch == InitSketch /\ [][NextSketch]_vars

SketchTools ==
    {Str("add_circle_to_sketch"), Str("add_rectangle_to_sketch"),
     Str("add_line_to_sketch"), Str("add_arc_to_sketch"),
     Str("trace_points_in_sketch"), Str("extrude_sketch")}

\* The plan calls a tool that takes sketch_name, with a name the client
\* object c has no sketch for
NamesUnregisteredSketch(plan, c) ==
    /\ ActionOf(plan) = Str("tool_call")
    /\ Get(plan, "tool_name", None) \in SketchTools
    /\ LET tool_args == Get(plan, "tool_args", Obj(EmptyDict))
       IN  /\ HasArg(tool_args, "sketch_name")
           /\ ArgOf(tool_args, "sketch_name") \notin c.sketches

\* C13: a step of add_circle, add_rectangle, add_line, add_arc, trace_points
\* or extrude_sketch whose sketch_name is not a registered sketch of the
\* session fails without a CAD call, the loop ends FAILED, and the registry
\* (sketches and features) is as it was.
C13_UnregisteredSketchFails ==
    [][(pc = "executing" /\ NamesUnregisteredSketch(next_action, onshape))
       => /\ last_exec'.called
          /\ ~last_exec'.success
          /\ last_exec'.cad = <<>>
          /\ LoopState' = "FAILED"
          /\ onshape'.sketches = onshape.sketches
          /\ onshape'.features = onshape.features]_vars

\* A step on the sketch "S2" has failed in the client, which holds the
\* sketch "S1" only, and the loop has ended FAILED
C13_Witness ==
    /\ last_exec.called
    /\ NamesUnregisteredSketch(last_exec.plan, onshape)
    /\ Get(last_exec.plan, "tool_name", None) = Str("add_line_to_sketch")
    /\ onshape.sketches = {Str("S1")}
    /\ last_exec.output.err = "Sketch not found"
    /\ ~last_exec.success
    /\ LoopState = "FAILED"

-----------------------------------------------------------------------------
(* Properties of the session *)

\* The tools that work in the part studio
PartStudioTools == SketchTools \cup {Str("create_sketch")}

ToolOf(plan) == Get(plan, "tool_name", None)

\* C14 (as stated): in every state where the session's part-studio ref is
\* absent, after a reset too, a step of create_sketch, add_circle,
\* add_rectangle, add_line, add_arc, trace_points or extrude_sketch reports
\* failure and makes no CAD call.
C14_NoPartStudioFails ==
    [][(/\ current_part_studio = "None"
        /\ last_exec' # last_exec
        /\ ActionOf(last_exec'.plan) = Str("tool_call")
        /\ ToolOf(last_exec'.plan) \in PartStudioTools)
       => /\ ~last_exec'.success
          /\ last_exec'.cad = <<>>]_vars

-----------------------------------------------------------------------------
(* The executor on extrudes of every operation *)

ExtrudeResponses ==
    SetupResponses
    \cup { Text(ToolCallText("n:extrude_sketch", S1Args \o <<"endBoundOffset=20", op>>)) :
           op \in {"operation=new", "operation=remove", "operation=intersect"} }

ExtrudePlans == PlansOf(ExtrudeResponses)

CallExtrude == CallExecutorOn(ExtrudePlans)

InitExtrude ==
    /\ InitAgent
    /\ llm = <<ExtrudeResponses>>

NextExtrude ==
    \/ CallExtrude
    \/ ResetSession

SpecExtrude == InitExtrude /\ [][NextExtrude]_vars

\* The plan is an extrude_sketch whose operation is one of ops
ExtrudeWith(plan, ops) ==
    /\ ActionOf(plan) = Str("tool_call")
    /\ ToolOf(plan) = Str("extrude_sketch")
    /\ LET tool_args == Get(plan, "tool_args", Obj(EmptyDict))
       IN  /\ HasArg(tool_args, "operation")
           /\ ArgOf(tool_args, "operation") \in ops

\* C15 (as stated): an extrude_sketch step with operation "remove" or
\* "intersect", taken when no part exists in the session, fails: the
\* extrude is not sent to the CAD collaborator and no feature is registered.
C15_RemoveNeedsPart ==
    [][(/\ last_exec' # last_exec
        /\ ExtrudeWith(last_exec'.plan, {Str("remove"), Str("intersect")})
        /\ onshape.parts = 0)
       => /\ ~last_exec'.success
          /\ last_exec'.cad = <<>>
          /\ onshape'.features = onshape.features]_vars

\* C16: for every tool_call decision and every exception that a handler or
\* the CAD collaborator raises, _execute_planned_step returns a step result
\* with success false, and no exception leaves it.
C16_ExecutorNeverRaises ==
    /\ \A plan \in ArgPlans, env \in Envs :
          LET r == ExecutePlannedStep(plan, Sess, env)
              tool_name == ToolOf(plan)
              tool_args == Get(plan, "tool_args", Obj(EmptyDict))
          IN  /\ ~r.raised
              /\ (/\ ActionOf(plan) = Str("tool_call")
                  /\ ToolKnown(tool_name)
                  /\ ExecuteToolCall(tool_name.v, tool_args, Sess, env).exc)
                 => /\ ~r.success
                    /\ r.output.msg = "Failed to execute"
    /\ last_exec.called => ~last_exec.raised

\* The CAD collaborator has raised in add_sketch, and the step has returned
\* a failure
C16_Witness ==
    /\ last_exec.called
    /\ ToolOf(last_exec.plan) = Str("create_sketch")
    /\ last_exec.output.err = "Failed to create sketch with OnPy"
    /\ last_exec.cad # <<>>
    /\ ~last_exec.success
    /\ ~last_exec.raised

\* C17 (as stated): every step that reports failure leaves the whole
\* session (the three refs and the client's registry) as it was before the
\* step.
C17_FailedStepLeavesSession ==
    [][(last_exec' # last_exec /\ ~last_exec'.success) => session' = session]_vars

\* C18 (as stated): after reset the session is empty: the three refs are
\* absent and the registry holds no entity, so the summary reports no
\* feature and no sketch name is available.
C18_ResetEmptiesSession ==
    [][(current_document # "None" /\ current_document' = "None")
       => /\ current_workspace' = "None"
          /\ current_part_studio' = "None"
          /\ onshape'.sketches = {}
          /\ get_current_features_summary(onshape').value = <<>>
          /\ get_available_sketches(onshape').value = <<>>]_vars

\* C19 (as stated): every part-creation request runs against its own
\* session: when a request enters the loop, the session is the one of a new
\* agent, whatever the requests before it did.
C19_RequestHasOwnSession ==
    (pc = "loop" /\ step_count = 0) => Sess = FreshSession

-----------------------------------------------------------------------------
(* The executor on a sketch and its geometry *)

\* The sketch S1, made on Top and made again on Front, and every kind of
\* geometry on it
GeomResponses ==
    SetupResponses
    \cup { Text(ToolCallText("n:create_sketch", <<"plane=Front", "name=S1">>)),
           Text(ToolCallText("n:add_circle_to_sketch",
                             S1Args \o <<"center=[0,0]", "radius=25">>)),
           Text(ToolCallText("n:add_rectangle_to_sketch",
                             S1Args \o <<"corner_1=[0,0]", "corner_2=[5,5]">>)),
           Text(ToolCallText("n:add_line_to_sketch",
                             S1Args \o <<"start_point=[0,0]", "end_point=[5,5]">>)),
           Text(ToolCallText("n:add_arc_to_sketch",
                             S1Args \o <<"centerpoint=[0,0]", "radius=25",
                                         "start_angle=0", "end_angle=90">>)),
           Text(ToolCallText("n:trace_points_in_sketch",
                             S1Args \o <<"points=[[0,0],[5,5]]">>)) }

GeomPlans == PlansOf(GeomResponses)

InitGeom ==
    /\ InitAgent
    /\ llm = <<GeomResponses>>

\* No reset_session: the properties checked here are about sequences of
\* steps without a reset
NextGeom == CallExecutorOn(GeomPlans)

SpecGeom == InitGeom /\ [][NextGeom]_vars

\* The step that leads to the next state is a call of the tool, and it
\* reports success
Succeeds(tool) ==
    /\ last_exec' # last_exec
    /\ last_exec'.success
    /\ ToolOf(last_exec'.plan) = Str(tool)

ArgsOf(plan) == Get(plan, "tool_args", Obj(EmptyDict)).o

\* C21: after create_sketch(plane, name) succeeds the registry holds under
\* that name a sketch on that plane, and after add_circle_to_sketch on a
\* name succeeds, looking the name up yields a sketch, on the plane it was
\* created on, with geometry kind circle.
C21_SketchCircleRoundTrip ==
    [][/\ Succeeds("create_sketch")
          => LET a == ArgsOf(last_exec'.plan)
             IN  /\ HasFeature(onshape'.features, a.name)
                 /\ FeatureInfo(onshape'.features, a.name).type = "sketch"
                 /\ FeatureInfo(onshape'.features, a.name).plane = a.plane
       /\ Succeeds("add_circle_to_sketch")
          => LET name == ArgsOf(last_exec'.plan).sketch_name
             IN  /\ HasFeature(onshape.features, name)
                 /\ HasFeature(onshape'.features, name)
                 /\ LET before == FeatureInfo(onshape.features, name)
                        after == FeatureInfo(onshape'.features, name)
                    IN  /\ after.type = "sketch"
                        /\ after.plane = before.plane
                        /\ after.has_geometry
                        /\ after.geometry_type = "circle"]_vars

\* The sketch S1, created on Front, holds a circle
C21_Witness ==
    /\ last_exec.called
    /\ last_exec.success
    /\ ToolOf(last_exec.plan) = Str("add_circle_to_sketch")
    /\ HasFeature(onshape.features, Str("S1"))
    /\ FeatureInfo(onshape.features, Str("S1")).plane = Str("Front")
    /\ FeatureInfo(onshape.features, Str("S1")).geometry_type = "circle"

\* The geometry kind each geometry tool adds
KindOf ==
       ("add_circle_to_sketch" :> "circle")
    @@ ("add_rectangle_to_sketch" :> "rectangle")
    @@ ("add_line_to_sketch" :> "line")
    @@ ("add_arc_to_sketch" :> "arc")
    @@ ("trace_points_in_sketch" :> "polyline")

\* The step that leads to the next state is a successful geometry step on
\* a registered sketch
GeometryStep ==
    /\ (last_exec' # last_exec \/ onshape' # onshape)
    /\ last_exec'.success
    /\ ToolOf(last_exec'.plan).v \in DOMAIN KindOf
    /\ HasFeature(onshape.features, ArgsOf(last_exec'.plan).sketch_name)

RecordBefore == FeatureInfo(onshape.features, ArgsOf(last_exec'.plan).sketch_name)
RecordAfter == FeatureInfo(onshape'.features, ArgsOf(last_exec'.plan).sketch_name)

\* C22 (as stated): when a successful geometry step adds to a sketch a kind
\* other than the one recorded for it (or the record is already "mixed"),
\* the sketch's recorded geometry kind is "mixed" after the step.
C22_TwoKindsAreMixed ==
    [][(/\ GeometryStep
        /\ RecordBefore.has_geometry
        /\ RecordBefore.geometry_type # KindOf[ToolOf(last_exec'.plan).v])
       => RecordAfter.geometry_type = "mixed"]_vars

\* C23 (as stated): a sketch's geometry record is never removed: a sketch
\* that has geometry recorded still has geometry recorded after any
\* successful step without a reset, create_sketch with the same name
\* included.
C23_GeometryNeverRemoved ==
    [][\A i \in DOMAIN onshape.features :
          (/\ onshape.features[i].info.type = "sketch"
           /\ onshape.features[i].info.has_geometry)
          => /\ HasFeature(onshape'.features, onshape.features[i].name)
             /\ FeatureInfo(onshape'.features, onshape.features[i].name).has_geometry]_vars

-----------------------------------------------------------------------------
(* The executor on two sketches, their extrudes and delete_feature *)

\* Two sketches, an extrude of each by the same distance and operation, and
\* delete_feature on the first sketch
RegistryResponses ==
    SetupResponses
    \cup { Text(ToolCallText("n:create_sketch", <<"plane=Front", "name=S2">>)),
           Text(ToolCallText("n:extrude_sketch",
                             S1Args \o <<"endBoundOffset=20", "operation=new">>)),
           Text(ToolCallText("n:extrude_sketch",
                             S2Args \o <<"endBoundOffset=20", "operation=new">>)),
           Text(ToolCallText("n:delete_feature", <<"feature_id=S1">>)) }

RegistryPlans == PlansOf(RegistryResponses)

InitRegistry ==
    /\ InitAgent
    /\ llm = <<RegistryResponses>>

\* No reset_session: sequences of executor steps without a reset
NextRegistry == CallExecutorOn(RegistryPlans)

SpecRegistry == InitRegistry /\ [][NextRegistry]_vars

\* The names registered in the client: its sketches and its features
Names(c) == c.sketches \cup {c.features[i].name : i \in DOMAIN c.features}

\* C24: across executor steps without a reset the set of names registered
\* in the session only grows: a name registered before a step is registered
\* after it.
C24_NamesOnlyGrow ==
    [][Names(onshape) \subseteq Names(onshape')]_vars

\* delete_feature on the registered sketch S1 has been executed, and the
\* sketches and the extrude are registered
C24_Witness ==
    /\ last_exec.called
    /\ ToolOf(last_exec.plan) = Str("delete_feature")
    /\ last_exec.dispatched
    /\ current_part_studio # "None"
    /\ {Str("S1"), Str("S2")} \subseteq Names(onshape)
    /\ Cardinality(Names(onshape)) = 3

\* C25 (as stated): a successful extrude_sketch step never replaces or
\* erases the record of an earlier extrude: every extrude feature of the
\* registry is there after the step, with the sketch it was extruded from.
C25_ExtrudeRecordsKept ==
    [][Succeeds("extrude_sketch")
       => \A i \in DOMAIN onshape.features :
             onshape.features[i].info.type = "extrude"
             => /\ HasFeature(onshape'.features, onshape.features[i].name)
                /\ FeatureInfo(onshape'.features, onshape.features[i].name).source_sketch
                   = onshape.features[i].info.source_sketch]_vars

-----------------------------------------------------------------------------
(* Properties of the run as the caller sees it *)

\* C26 (as stated): a run that stops because a step failed returns a final
\* message that carries the failure and is not the message of a run that
\* exhausts the step budget.
C26_FailureMessageDiffers ==
    (pc = "idle" /\ exit = "break") => result # MaxStepsMessage

\* C27: a run starts with an empty history; every executed step appends its
\* own record (step number, description, output) to the history; so the
\* k-th planner call of a run is given the records of steps 1..k-1 in
\* order, and the features summary and available sketches of the session
\* as steps 1..k-1 left it.
C27_HistoryInOrder ==
    [][/\ (pc = "idle" /\ pc' = "loop") => context' = <<>>
       /\ (executor_calls' = executor_calls + 1)
          => /\ last_exec'.plan = next_action
             /\ context' = Append(context,
                                  [step |-> step_count,
                                   description |-> Get(next_action, "description",
                                                       Str("Unknown action")),
                                   output |-> last_exec'.output])
       /\ (planner_calls' = planner_calls + 1)
          => /\ planning_prompt'.context = context
             /\ Len(context) = planner_calls
             /\ \A i \in DOMAIN context : context[i].step = i
             /\ planning_prompt'.features = get_current_features_summary(onshape).value
             /\ planning_prompt'.sketches = get_available_sketches(onshape).value
             /\ planning_prompt'.part_studio = current_part_studio]_vars

\* The fourth planner call of a run has been given three records and the
\* sketch S1 that the third step made
C27_Witness ==
    /\ planner_calls = 4
    /\ Len(planning_prompt.context) = 3
    /\ planning_prompt.context[3].step = 3
    /\ planning_prompt.sketches = <<Str("S1")>>
    /\ Len(planning_prompt.features) = 1
    /\ planning_prompt.part_studio = "onpy_partstudio"

\* C28: within a run the planner and the executor alternate: a step is
\* executed only while exactly one planner call is ahead of the executor
\* calls, and it executes that call's decision; and the planner is called
\* only when every executed step has its record in the history, the last
\* record being the result of the last executed step.
C28_CallsAlternate ==
    /\ pc = "executing"
       => /\ planner_calls = executor_calls + 1
          /\ response.kind = "text"
          /\ next_action = PlanNextStep(response).plan
          /\ Len(context) = executor_calls
    /\ pc = "loop"
       => /\ planner_calls = executor_calls
          /\ Len(context) = executor_calls
          /\ executor_calls > 0
             => /\ last_exec.called
                /\ last_exec.plan = next_action
                /\ context[Len(context)].output = last_exec.output
    /\ pc = "idle"
       => planner_calls \in {executor_calls, executor_calls + 1}

\* The third decision of a run is about to be executed, after two executed
\* steps
C28_Witness ==
    /\ pc = "executing"
    /\ planner_calls = 3
    /\ executor_calls = 2
    /\ Len(context) = 2
    /\ last_exec.success

\* C29 (as stated): create_part_from_description always returns a final
\* message string, whatever the planner returns and whichever failure
\* occurs during the run.
C29_ReturnsMessageString ==
    (pc = "idle" /\ runs > 0) => result.ty = "str"

\* C30 (as stated): when llm.generate raises inside _plan_next_step, the
\* exception does not leave _agentic_workflow: the loop does not end in
\* ERROR, it goes on or ends DONE or FAILED with a final message of its own.
C30_LoopSurvivesLLMFailure ==
    (planner_calls > 0 /\ response.kind = "raise") => LoopState # "ERROR"

-----------------------------------------------------------------------------
(* _execute_tool_call called on its own *)

\* Tool calls for _execute_tool_call: the calls that build a session, a
\* circle, and a call of a name that has no branch
DispatchResponses ==
    SetupResponses
    \cup { Text(ToolCallText("n:add_circle_to_sketch",
                             S1Args \o <<"center=[0,0]", "radius=25">>)),
           Text(ToolCallText("n:make_gear", <<"radius=25">>)) }

DispatchPlans == PlansOf(DispatchResponses)

\* await self._execute_tool_call(tool_call), without the catalog test of
\* _execute_planned_step before it: the call returns None (success) or an
\* exception leaves it (raised)
DispatchToolCall ==
    /\ pc = "idle"
    /\ \E plan \in DispatchPlans, env \in Envs :
          LET r == ExecuteToolCall(ToolOf(plan).v, Get(plan, "tool_args", Obj(EmptyDict)),
                                   Sess, env)
          IN  /\ WithinBounds(r.s)
              /\ SetSess(r.s)
              /\ last_exec' = [called |-> TRUE, plan |-> plan, success |-> ~r.exc,
                               output |-> [msg |-> "", tool |-> ToolOf(plan), err |-> r.err],
                               dispatched |-> TRUE, cad |-> r.cad, raised |-> r.exc]
    /\ UNCHANGED <<pc, step_count, context, next_action, result, exit, response,
                   llm, runs, planner_calls, executor_calls, planning_prompt>>

InitDispatch ==
    /\ InitAgent
    /\ llm = <<DispatchResponses>>

NextDispatch ==
    \/ DispatchToolCall
    \/ ResetSession

SpecDispatch == InitDispatch /\ [][NextDispatch]_vars

\* C31 (as stated): _execute_tool_call called with a function name that has
\* no branch reports an error: an exception leaves it, and it never returns
\* as if the call had succeeded.
C31_NoHandlerFailsLoudly ==
    (last_exec.called /\ ToolOf(last_exec.plan).v \notin available_tool_names)
    => /\ last_exec.raised
       /\ ~last_exec.success

-----------------------------------------------------------------------------
(* The loop on the decisions that make a cylinder *)

\* The planner's successive decisions: a document, a part studio, a sketch
\* on Top, a circle of radius 25, an extrude by 20, complete
CylinderScript ==
    << {Text(ToolCallText("n:create_document", <<"name=Part">>))},
       {Text(ToolCallText("n:create_part_studio", <<"name=Part">>))},
       {Text(ToolCallText("n:create_sketch", <<"plane=Top", "name=S1">>))},
       {Text(ToolCallText("n:add_circle_to_sketch",
                          S1Args \o <<"center=[0,0]", "radius=25">>))},
       {Text(ToolCallText("n:extrude_sketch",
                          S1Args \o <<"endBoundOffset=20", "operation=new">>))},
       {Text(<<LB, "a:complete", "m:ok", RB>>)} >>

InitCylinder ==
    /\ InitAgent
    /\ llm = CylinderScript

NextCylinder ==
    \/ CreatePart
    \/ PlanStep
    \/ ExecuteStep
    \/ ResetSession

SpecCylinder == InitCylinder /\ [][NextCylinder]_vars

CylinderTools ==
    <<"create_document", "create_part_studio", "create_sketch",
      "add_circle_to_sketch", "extrude_sketch">>

\* The onpy call a successful step of the scenario makes first
CylinderCall(tool) ==
    CASE tool = "create_document" -> Call("onpy.create_document", <<Str("Part")>>)
      [] tool = "create_part_studio" -> Call("document.get_partstudio", <<>>)
      [] tool = "create_sketch" -> Call("partstudio.features.plane", <<"top">>)
      [] tool = "add_circle_to_sketch" ->
            Call("sketch.add_circle",
                 <<<<Inch(Num(0)), Inch(Num(0))>>, Inch(Num(25))>>)
      [] tool = "extrude_sketch" ->
            Call("partstudio.add_extrude",
                 <<Str("S1"), Inch(Num(20)), ExtrudeName(Num(20), Str("new")),
                   [subtract_from |-> FALSE]>>)

\* C32: in the first run on a new agent, with the planner deciding
\* create_document, create_part_studio, create_sketch on Top,
\* add_circle_to_sketch with radius 25, extrude_sketch by 20 as "new" and
\* then complete, the executor runs these operations in this order with the
\* arguments as decided, only a failure of the CAD collaborator stops the
\* run early, and a run that reaches complete ends DONE with the complete
\* message and a session that holds one sketch on Top with a circle and one
\* extrude feature of that sketch.
C32_CylinderScenario ==
    runs = 1
    => /\ exit \notin {"exception", "budget"}
       /\ \A i \in DOMAIN context : context[i].output.tool = Str(CylinderTools[i])
       /\ (last_exec.called /\ last_exec.success)
          => /\ ToolOf(last_exec.plan) = Str(CylinderTools[executor_calls])
             /\ last_exec.cad[1] = CylinderCall(CylinderTools[executor_calls])
       /\ (pc = "idle" /\ exit = "break")
          => /\ last_exec.cad # <<>>
             /\ last_exec.output.msg = "Failed to execute"
       /\ (pc = "idle" /\ exit = "complete")
          => /\ LoopState = "DONE"
             /\ result = Str("ok")
             /\ executor_calls = 5
             /\ Len(context) = 5
             /\ \A i \in 1..5 : context[i].output.msg = "Successfully executed"
             /\ onshape.sketches = {Str("S1")}
             /\ Len(onshape.features) = 2
             /\ onshape.features[1].name = Str("S1")
             /\ onshape.features[1].info.type = "sketch"
             /\ onshape.features[1].info.plane = Str("Top")
             /\ onshape.features[1].info.geometry_type = "circle"
             /\ onshape.features[2].info.type = "extrude"
             /\ onshape.features[2].info.source_sketch = Str("S1")
             /\ onshape.features[2].info.distance = Num(20)

\* The first run has made the cylinder and ended DONE
C32_Witness ==
    /\ runs = 1
    /\ pc = "idle"
    /\ exit = "complete"
    /\ executor_calls = 5
    /\ Len(onshape.features) = 2
    /\ onshape.parts = 1

-----------------------------------------------------------------------------
(* The front ends: cli.main and the FastAPI application *)

NotInitialized ==
    [ty |-> "http", status |-> 500, detail |-> "AI Agent not initialized"]

\* cli.main up to its command loop, and api.startup_event: CADAgent(...)
\* (or config.validate) succeeds or fails.  The CLI calls sys.exit(1) on a
\* failure; the API prints the failure and leaves `agent` None.
Startup ==
    /\ pc = "starting"
    /\ \E front_end \in {"cli", "api"}, constructed \in BOOLEAN :
          IF constructed
          THEN pc' = "idle" /\ UNCHANGED exit
          ELSE IF front_end = "cli"
          THEN pc' = "exited" /\ exit' = "status 1"
          ELSE pc' = "no_agent" /\ UNCHANGED exit
    /\ UNCHANGED <<session, step_count, context, next_action, result, response, llm,
                   runs, planner_calls, executor_calls, last_exec, planning_prompt>>

\* Mutant of ApiRequestWithoutAgent: /create-part does not test `agent` and
\* starts a run.
ApiRequestNoTest ==
    /\ pc = "no_agent"
    /\ pc' = "loop"
    /\ runs < MaxRuns
    /\ runs' = runs + 1
    /\ UNCHANGED <<session, step_count, context, next_action, result, exit, response,
                   llm, planner_calls, executor_calls, last_exec, planning_prompt>>

\* /create-part, /status and /reset while `agent` is None:
\* if not agent: raise HTTPException(status_code=500, ...)
ApiRequestWithoutAgent ==
    /\ pc = "no_agent"
    /\ \E endpoint \in {"/create-part", "/status", "/reset"} :
          result' = [NotInitialized EXCEPT !.ty = endpoint]
    /\ UNCHANGED <<session, pc, step_count, context, next_action, exit, response, llm,
                   runs, planner_calls, executor_calls, last_exec, planning_prompt>>

InitStartup ==
    /\ current_document = "None"
    /\ current_workspace = "None"
    /\ current_part_studio = "None"
    /\ onshape = NewClient
    /\ pc = "starting"
    /\ step_count = 0
    /\ context = <<>>
    /\ next_action = EmptyDict
    /\ result = None
    /\ exit = "none"
    /\ response = NoResponse
    /\ runs = 0
    /\ planner_calls = 0
    /\ executor_calls = 0
    /\ last_exec = NoExec
    /\ planning_prompt = NoPrompt
    /\ llm = <<LoopResponses>>

NextStartup ==
    \/ Startup
    \/ ApiRequestWithoutAgent
    \/ CreatePart
    \/ PlanStep
    \/ ExecuteStep
    \/ BudgetExit
    \/ ResetSession

SpecStartup == InitStartup /\ [][NextStartup]_vars

\* C33: when constructing the agent fails, no planner call and no executor
\* call ever happens: the CLI has exited with status 1 and takes no further
\* step, and the HTTP API stays without agent and answers /create-part,
\* /status and /reset with the error "AI Agent not initialized".
C33_NoLoopWithoutAgent ==
    /\ [](pc \in {"no_agent", "exited"}
            => /\ runs = 0
               /\ planner_calls = 0
               /\ executor_calls = 0
               /\ ~last_exec.called
               /\ Sess = FreshSession
               /\ pc = "exited" => exit = "status 1")
    /\ [][/\ pc # "exited"
          /\ pc = "no_agent"
             => /\ pc' = "no_agent"
                /\ result'.status = 500
                /\ result'.detail = "AI Agent not initialized"]_vars

\* The API without agent has answered /create-part with the error
C33_Witness ==
    /\ pc = "no_agent"
    /\ result = [NotInitialized EXCEPT !.ty = "/create-part"]
    /\ planner_calls = 0

-----------------------------------------------------------------------------
(* Termination of a run *)

\* The agent serving requests, every awaited call returning or failing: a
\* run that can take its next step takes it
SpecLive ==
    /\ Init
    /\ [][Next]_vars
    /\ WF_vars(PlanStep)
    /\ WF_vars(ExecuteStep)
    /\ WF_vars(BudgetExit)

\* C34 (as stated): every run terminates in DONE or FAILED: a run that is
\* in the loop eventually reaches one of these two terminal states,
\* whatever the planner decides.
C34_RunEndsDoneOrFailed ==
    (pc = "loop") ~> (LoopState \in {"DONE", "FAILED"})

-----------------------------------------------------------------------------
(* More properties of the session and of the executor *)

\* C35 (as stated): a successful geometry step that adds to a sketch the
\* one kind recorded for it leaves that kind recorded, not "mixed": a
\* second line on a sketch of lines leaves the kind line.
C35_OneKindStays ==
    [][(/\ GeometryStep
        /\ RecordBefore.has_geometry
        /\ RecordBefore.geometry_type = KindOf[ToolOf(last_exec'.plan).v])
       => RecordAfter.geometry_type = RecordBefore.geometry_type]_vars

\* C36 (as stated): the output of a step that failed because its handler or
\* the CAD collaborator raised holds the tool name and the arguments of the
\* step.  The output is the f-string of _execute_planned_step, whose two
\* fields are the tool name and the text of the exception.
C36_FailureNamesToolAndArguments ==
    (/\ last_exec.called /\ last_exec.dispatched /\ ~last_exec.success
     /\ ArgsOf(last_exec.plan) # EmptyDict)
    => /\ last_exec.output.tool = ToolOf(last_exec.plan)
       /\ "args" \in DOMAIN last_exec.output
       /\ last_exec.output.args = ArgsOf(last_exec.plan)

NeverTools ==
    {"select_document", "revolve_sketch", "delete_feature", "create_fillet",
     "create_chamfer"}

C38_PartStudioImpliesDocument ==
    current_part_studio # "None"
    => /\ current_document # "None"
       /\ current_workspace # "None"
       /\ onshape.current_partstudio # 0

\* The part-studio ref is set, and the part studio the client holds is that
\* of the second document created.
C38_Witness ==
    /\ current_part_studio # "None"
    /\ current_document # "None"
    /\ onshape.current_document = 2
    /\ onshape.current_partstudio = 2

\* C39: a successful create_document in a session that holds a part studio
\* gives the client a new document and leaves the part-studio ref, the
\* client's part-studio object, its planes, sketches, features and parts as
\* they were, so the part studio held is that of an earlier document; and a
\* successful sketch, geometry or extrude step leaves the part-studio object
\* as it was, so it acts on that earlier part studio.
C39_CreateDocumentKeepsPartStudio ==
    [][/\ (/\ last_exec' # last_exec \/ onshape' # onshape
           /\ last_exec'.success
           /\ ToolOf(last_exec'.plan) = Str("create_document")
           /\ current_part_studio # "None")
          => /\ current_part_studio' = current_part_studio
             /\ current_document' # "None"
             /\ current_workspace' # "None"
             /\ onshape'.current_document # onshape.current_document
             /\ onshape'.current_document # onshape.current_partstudio
             /\ onshape' = [onshape EXCEPT
                               !.current_document = onshape'.current_document]
       /\ (/\ last_exec' # last_exec \/ onshape' # onshape
           /\ last_exec'.success
           /\ ToolOf(last_exec'.plan) \in SketchTools \cup {Str("create_sketch")})
          => /\ onshape'.current_partstudio = onshape.current_partstudio
             /\ onshape'.current_document = onshape.current_document]_vars

\* A second document was created after the part studio and the sketch S1,
\* and an extrude of S1 has then succeeded on the part studio of the first.
C39_Witness ==
    /\ onshape.current_document = 2
    /\ onshape.current_partstudio = 1
    /\ current_part_studio # "None"
    /\ last_exec.called
    /\ last_exec.success
    /\ ToolOf(last_exec.plan) = Str("extrude_sketch")
    /\ onshape.parts > 0

-----------------------------------------------------------------------------
(* The answer of POST /create-part *)

\* Mutant of create_part: success tells whether the run ended by the
\* planner's complete.
create_partOfRun(message) ==
    [success |-> exit = "complete",
     message |-> message,
     status |-> [document_id |-> current_document,
                 workspace_id |-> current_workspace,
                 part_studio_id |-> current_part_studio]]

\* return {"success": True, "message": result, "status": await agent.get_status()}
create_part(message) ==
    [success |-> TRUE,
     message |-> message,
     status |-> [document_id |-> current_document,
                 workspace_id |-> current_workspace,
                 part_studio_id |-> current_part_studio]]

\* C40: the answer of /create-part to a run that has returned, by the
\* planner's complete, by the step budget, by the break after a failed step
\* or with "Error creating part", has success true and the run's return
\* value as its message.
C40_ResponseAlwaysSuccess ==
    (pc = "idle" /\ runs > 0 /\ exit \in {"complete", "budget", "break", "exception"})
    => /\ create_part(result).success
       /\ create_part(result).message = result

\* A run has ended by the break after a failed step, and the answer to it
\* has success true.
C40_Witness ==
    /\ pc = "idle"
    /\ runs > 0
    /\ exit = "break"
    /\ last_exec.called
    /\ ~last_exec.success
    /\ result = MaxStepsMessage
    /\ create_part(result).success
    /\ create_part(result).status.document_id = current_document

====
